---------------------------- MODULE Spec2Model ----------------------------
(***************************************************************************)
(* A model of the Holon runtime core: the Flow composition operator        *)
(* (packages/flow/src/flow.ts), the immutable Context with its ambient     *)
(* propagation through AsyncLocalStorage (the context package), executed   *)
(* on a model of the JavaScript job queue: a call runs to completion, a    *)
(* promise reaction runs as a later job, a pending promise of a user       *)
(* function settles at a time the environment chooses.                     *)
(***************************************************************************)
EXTENDS Integers, Sequences, FiniteSets, TLC

VARIABLES
  hasALS,            \* typeof globalThis.AsyncLocalStorage !== 'undefined'
  asyncLocalStorage, \* the module-level storage instance exists
  store,             \* the store of the running execution context (0: undefined)
  promises,          \* the promises created so far, by identity
  jobs,              \* the promise job queue
  invs,              \* the invocations of user functions so far
  calls,             \* the top-level calls made so far, with what each returned
  sc,                \* the scenario: the flows, the input and the program
  ctxs,              \* the Context instances created so far, by identity
  ops,               \* the Context operations performed so far, with their results
  handlers           \* the handlers Map of the EffectInterpreter instance

vars ==
  <<hasALS, asyncLocalStorage, store, promises, jobs, invs, calls, sc, ctxs, ops, handlers>>

----------------------------------------------------------------------------
(* Bounds of the model. *)

\* values are the integers 0 .. ValMod - 1
ValMod == 5
\* inputs are 0 .. MaxInput
MaxInput == 1

Values == 0 .. (ValMod - 1)
Inputs == 0 .. MaxInput

----------------------------------------------------------------------------
(* Values of the runtime. *)

\* what a call returns: a value, a thrown error, or a promise (by identity)
Val(v) == [k |-> "val", v |-> v]
Throw(e) == [k |-> "throw", v |-> e]
Prom(p) == [k |-> "promise", v |-> p]

\* the user functions wrapped into flows: each a different, non-commuting map
LeafIds == <<"f", "g", "h", "a", "b", "run", "r">>

LeafIndex(id) == CHOOSE i \in 1 .. Len(LeafIds) : LeafIds[i] = id

Apply(id, x) ==
  CASE id = "f" -> (x + 1) % ValMod
    [] id = "g" -> (2 * x) % ValMod
    [] id = "h" -> (x + 3) % ValMod
    [] id = "identity" -> x
    [] id = "zero" -> 0
    [] id = "r" -> ((2 * x[1]) + x[2] + 1) % ValMod
    [] OTHER -> x

\* the item of the input x: the reducer r takes the pair [acc, item]
ItemOf(id, x) == IF id = "r" THEN x[2] ELSE x

\* the error a failing user function throws (or rejects with) on input x
ErrorOf(id, x) == 100 + (10 * LeafIndex(id)) + ItemOf(id, x)

\* what an onError handler returns, and what a failing handler throws
HandlerValue(id, e, x) == (e + x) % ValMod
HandlerError(id, e, x) == 200 + (10 * LeafIndex(id)) + x


----------------------------------------------------------------------------
(* Flows, as the values the constructors build. *)

\* flow(fn) or flow({fn, onError}): a user function wrapped into a Flow
Flow(id, async, ok, onError) ==
  [k |-> "flow", id |-> id, async |-> async, ok |-> ok, onError |-> onError]

\* flow(() => new Promise(() => {})): a flow whose promise is never settled
Never(id) ==
  [k |-> "flow", id |-> id, async |-> TRUE, ok |-> TRUE, never |-> TRUE, onError |-> "none"]

\* contextual(fn): a user function of (input, ctx); expect is the context the
\* scenario runs it under (a label of the scenario, the code never reads it)
Contextual(id, async, ok, expect) ==
  [k |-> "contextual", id |-> id, async |-> async, ok |-> ok, expect |-> expect]

\* flow({fn: (x) => c.run(inner, x), onError}): a stage that runs inner under the
\* context c; expect is the context the scenario runs the stage itself under
RunStage(c, inner, onError, expect) ==
  [k |-> "run", id |-> "run", c |-> c, t |-> inner, onError |-> onError, expect |-> expect]

\* flow({fn: (x) => withContext(c, () => inner(x)), onError})
WithContextStage(c, inner, onError, expect) ==
  [k |-> "withContext", id |-> "run", c |-> c, t |-> inner, onError |-> onError,
   expect |-> expect]

\* (mutant) an identity that drops its input: flow(() => undefined)
identity_dropsInput == Flow("zero", FALSE, TRUE, "none")

\* identity(): flow((x) => x, {name: 'identity', performance: {pure: true}})
identity ==
  [k |-> "flow", id |-> "identity", async |-> FALSE, ok |-> TRUE, onError |-> "none",
   meta |-> [name |-> "identity", performance |-> [pure |-> TRUE]]]

\* a user function that fails on the item failsOn only
FailingOn(id, async, failsOn) ==
  [k |-> "flow", id |-> id, async |-> async, ok |-> TRUE, onError |-> "none",
   failsOn |-> failsOn]

\* whether the user function of t succeeds on the input x
Succeeds(t, x) == IF "failsOn" \in DOMAIN t THEN ItemOf(t.id, x) # t.failsOn ELSE t.ok

\* map(mapper): flow(async (items) => { for (const item of items)
\* results.push(await mapper(item)); return results })
Map(mapper) == [k |-> "iterate", id |-> "map", f |-> mapper, initial |-> <<>>, onError |-> "none"]

\* filter(predicate): the items kept are those the predicate is truthy of
Filter(predicate) ==
  [k |-> "iterate", id |-> "filter", f |-> predicate, initial |-> <<>>, onError |-> "none"]

\* reduce(reducer, initial): acc = await reducer([acc, item])
Reduce(reducer, initial) ==
  [k |-> "iterate", id |-> "reduce", f |-> reducer, initial |-> initial, onError |-> "none"]

\* parallel(flows): flow(async (input) => Promise.all(flows.map((f) => f(input))))
parallel(flows) == [k |-> "parallel", id |-> "parallel", flows |-> flows, onError |-> "none"]

\* race(flows): flow(async (input) => Promise.race(flows.map((f) => f(input))))
race(flows) == [k |-> "race", id |-> "race", flows |-> flows, onError |-> "none"]

\* self.pipe(next) of a Flow built by flow(): a new Flow over the piped function
FlowPipe(self, next) == [k |-> "piped", l |-> self, r |-> next]

RECURSIVE PipeOf(_, _)

\* flow.pipe(next) of a contextual Flow; the pipe of its result re-associates:
\* piped.pipe(final) is flow.pipe(next.pipe(final))
ContextualPipe(self, next) == [k |-> "cpiped", l |-> self, r |-> next]

\* self.pipe(next), by the pipe method self carries
PipeOf(self, next) ==
  CASE self.k = "contextual" -> ContextualPipe(self, next)
    [] self.k = "cpiped" -> ContextualPipe(self.l, PipeOf(self.r, next))
    [] OTHER -> FlowPipe(self, next)

RECURSIVE ReducePipe(_, _)

\* flows.reduce((acc, flow) => acc.pipe(flow)), acc being the fold so far
ReducePipe(acc, flows) ==
  IF flows = <<>> THEN acc ELSE ReducePipe(PipeOf(acc, Head(flows)), Tail(flows))

\* (mutant) a compose in the order of function composition: the last flow is
\* applied first
compose_lastFirst(flows) ==
  IF Len(flows) = 0 THEN identity
  ELSE IF Len(flows) = 1 THEN flows[1]
  ELSE ReducePipe(flows[Len(flows)], [i \in 1 .. (Len(flows) - 1) |-> flows[Len(flows) - i]])

compose(flows) ==
  IF Len(flows) = 0 THEN identity
  ELSE IF Len(flows) = 1 THEN flows[1]
  ELSE ReducePipe(Head(flows), Tail(flows))

----------------------------------------------------------------------------
(* The heap a call works on: the promises, the job queue, the log of user   *)
(* function invocations, and the execution context's store.                *)

Heap ==
  [promises |-> promises, jobs |-> jobs, invs |-> invs, store |-> store,
   als |-> asyncLocalStorage, call |-> Len(calls),
   fan |-> [results |-> <<>>, threw |-> FALSE, e |-> 0]]

NoTerm == [k |-> "none"]

\* new Promise(...): pending; plan is how the environment will settle it
NewPromise(H, plan, pv) ==
  [H EXCEPT !.promises =
     Append(@, [st |-> "pending", v |-> 0, plan |-> plan, pv |-> pv, rs |-> <<>>])]

LastPromise(H) == Len(H.promises)

\* settling a promise queues one job per reaction, in registration order
SettlePromise(H, p, st, v) ==
  IF H.promises[p].st # "pending" THEN H
  ELSE LET rs == H.promises[p].rs IN
       [H EXCEPT !.promises[p] = [@ EXCEPT !.st = st, !.v = v, !.rs = <<>>],
                 !.jobs = @ \o [i \in 1 .. Len(rs) |-> [p |-> p, r |-> rs[i]]]]

\* a reaction on a pending promise waits; on a settled one it is queued at once
Subscribe(H, p, r) ==
  IF H.promises[p].st = "pending"
  THEN [H EXCEPT !.promises[p].rs = Append(@, r)]
  ELSE [H EXCEPT !.jobs = Append(@, [p |-> p, r |-> r])]

Reaction(k, t, d, in, H) ==
  [k |-> k, t |-> t, d |-> d, in |-> in, store |-> H.store, call |-> H.call]

\* resolving d with what a callback produced: a promise is adopted (d follows it)
ResolvePromise(H, d, res) ==
  CASE res.k = "val" -> SettlePromise(H, d, "fulfilled", res.v)
    [] res.k = "throw" -> SettlePromise(H, d, "rejected", res.v)
    [] OTHER -> Subscribe(H, res.v, Reaction("follow", NoTerm, d, 0, H))

\* Promise.resolve(x): x itself when it is a promise, else a promise fulfilled with x
PromiseResolve(H, res) ==
  IF res.k = "promise" THEN [h |-> H, res |-> res]
  ELSE LET H1 == NewPromise(H, "none", 0) IN
       [h |-> SettlePromise(H1, LastPromise(H1), "fulfilled", res.v),
        res |-> Prom(LastPromise(H1))]

\* the invocation of a user function: synchronous functions return or throw, an
\* asynchronous one returns a pending promise that settles later. The log entry
\* keeps what the function returned (res) and what the Flow around it returned (out)
\* ctx is the context the function was handed (0: it takes none)
UserFn(t, x, ctx, H) ==
  LET planned == IF "never" \in DOMAIN t THEN "none"
                 ELSE IF Succeeds(t, x) THEN "fulfilled" ELSE "rejected"
      pv == IF Succeeds(t, x) THEN Apply(t.id, x) ELSE ErrorOf(t.id, x)
      H1 == IF t.async THEN NewPromise(H, planned, pv) ELSE H
      res == IF t.async THEN Prom(LastPromise(H1))
             ELSE IF Succeeds(t, x) THEN Val(pv) ELSE Throw(pv)
  IN  [h |-> [H1 EXCEPT !.invs =
                Append(@, [call |-> H.call, fn |-> "fn", leaf |-> t.id, in |-> x,
                           err |-> 0, ctx |-> ctx,
                           expect |-> IF t.k = "contextual" THEN t.expect ELSE 0,
                           res |-> res, out |-> res])],
       res |-> res]

RECURSIVE Call(_, _, _)

emptyContext == 1

\* getAsyncLocalStorage(): creates the module's storage on first use, if it can
getAsyncLocalStorage(H) == [H EXCEPT !.als = @ \/ hasALS]

\* getCurrentContext(): storage?.getStore(), 0 standing for undefined
getCurrentContext(H) ==
  LET H1 == getAsyncLocalStorage(H) IN
  [h |-> H1, ctx |-> IF H1.als THEN H1.store ELSE 0]

\* the invocation of an onError handler with the error and the original input; the
\* handler of a stage that runs a flow under a context reads the current context
OnError(t, e, x, H) ==
  LET res == IF t.onError = "value" THEN Val(HandlerValue(t.id, e, x))
             ELSE Throw(HandlerError(t.id, e, x))
      cur == IF t.k = "flow" THEN [h |-> H, ctx |-> 0] ELSE getCurrentContext(H)
  IN  [h |-> [cur.h EXCEPT !.invs =
                Append(@, [call |-> H.call, fn |-> "onError", leaf |-> t.id, in |-> x,
                           err |-> e, ctx |-> cur.ctx,
                           expect |-> IF t.k = "flow" THEN 0 ELSE t.expect,
                           res |-> res, out |-> res])],
       res |-> res]

\* promise.then((value) => next(value)): the derived promise
Then(H, p, next) ==
  LET H1 == NewPromise(H, "none", 0)
      d == LastPromise(H1)
  IN  [h |-> Subscribe(H1, p, Reaction("then", next, d, 0, H)), res |-> Prom(d)]

\* result.catch((error) => onError(error, input)): the derived promise
Catch(H, p, t, x) ==
  LET H1 == NewPromise(H, "none", 0)
      d == LastPromise(H1)
  IN  [h |-> Subscribe(H1, p, Reaction("catch", t, d, x, H)), res |-> Prom(d)]

\* (mutant) a pipe that calls the function self wraps, fn, and not flowFn: the
\* onError handler of self is passed by
PipedFn_callsFn(self, next, x, H) ==
  LET intermediate == IF self.k = "flow" THEN UserFn(self, x, 0, H) ELSE Call(self, x, H) IN
  CASE intermediate.res.k = "promise" -> Then(intermediate.h, intermediate.res.v, next)
    [] intermediate.res.k = "throw" -> intermediate
    [] OTHER -> Call(next, intermediate.res.v, intermediate.h)

\* (mutant) a pipe that applies its stages in compose's mathematical order,
\* next first
PipedFn_reversed(self, next, x, H) ==
  LET intermediate == Call(next, x, H) IN
  CASE intermediate.res.k = "promise" -> Then(intermediate.h, intermediate.res.v, self)
    [] intermediate.res.k = "throw" -> intermediate
    [] OTHER -> Call(self, intermediate.res.v, intermediate.h)

\* (mutant) a pipe that catches what self throws and hands it to next as a value
PipedFn_catches(self, next, x, H) ==
  LET intermediate == Call(self, x, H) IN
  CASE intermediate.res.k = "promise" -> Then(intermediate.h, intermediate.res.v, next)
    [] OTHER -> Call(next, intermediate.res.v, intermediate.h)

\* the function of self.pipe(next)
PipedFn(self, next, x, H) ==
  LET intermediate == Call(self, x, H) IN
  CASE intermediate.res.k = "promise" -> Then(intermediate.h, intermediate.res.v, next)
    [] intermediate.res.k = "throw" -> intermediate
    [] OTHER -> Call(next, intermediate.res.v, intermediate.h)

\* the function of a contextual Flow
ContextualFn(t, x, H) ==
  LET cur == getCurrentContext(H)
      ctx == IF cur.ctx # 0 THEN cur.ctx ELSE emptyContext
  IN  UserFn(t, x, ctx, cur.h)

\* (mutant) a storage.run that leaves ctx as the store when the callback returns
StorageRun_leavesStore(c, t, x, H) == Call(t, x, [H EXCEPT !.store = c])

\* storage.run(ctx, callback): the callback runs with ctx as the store, which is
\* put back when the callback returns or throws
StorageRun(c, t, x, H) ==
  LET r == Call(t, x, [H EXCEPT !.store = c]) IN
  [h |-> [r.h EXCEPT !.store = H.store], res |-> r.res]

\* an async function's promise, resolved with what its body returned or threw
AsyncReturn(r) ==
  LET H1 == NewPromise(r.h, "none", 0)
      d == LastPromise(H1)
  IN  [h |-> ResolvePromise(H1, d, r.res), res |-> Prom(d)]

\* ImmutableContext.run(flow, input)
ContextRun(c, t, x, H) ==
  IF hasALS
  THEN LET H1 == getAsyncLocalStorage(H)
           r == StorageRun(c, t, x, H1)
       IN  AsyncReturn(IF r.res.k = "throw" THEN r ELSE PromiseResolve(r.h, r.res))
  ELSE LET r == Call(t, x, H) IN
       AsyncReturn(IF r.res.k = "throw" THEN r ELSE PromiseResolve(r.h, r.res))

\* withContext(ctx, fn), fn being () => inner(x)
WithContext(c, t, x, H) ==
  LET H1 == getAsyncLocalStorage(H) IN
  IF H1.als
  THEN AsyncReturn(StorageRun(c, t, x, H1))
  ELSE LET r == Call(t, x, H1) IN
       AsyncReturn(IF r.res.k = "throw" THEN r ELSE PromiseResolve(r.h, r.res))

RECURSIVE MapFlows(_, _, _, _)

\* flows.map((f) => f(input)): the flows are called in order, results being those
\* returned so far; a flow that throws ends the map and the rest is not called
MapFlows(flows, x, H, results) ==
  IF flows = <<>> THEN [h |-> H, threw |-> FALSE, results |-> results, e |-> 0]
  ELSE CHOOSE o \in
         {IF r.res.k = "throw"
          THEN [h |-> r.h, threw |-> TRUE, results |-> results, e |-> r.res.v]
          ELSE MapFlows(Tail(flows), x, r.h, Append(results, r.res)) :
            r \in {Call(Head(flows), x, H)}} : TRUE

RECURSIVE SubscribeEach(_, _, _, _, _)

\* for each of the results from the i-th on: Promise.resolve(result).then(...),
\* the reaction being of kind k on the promise d
SubscribeEach(H, results, i, k, d) ==
  IF i > Len(results) THEN H
  ELSE CHOOSE o \in
         {SubscribeEach(Subscribe(next.h, next.res.v, Reaction(k, NoTerm, d, i, next.h)),
                        results, i + 1, k, d) :
            next \in {PromiseResolve(H, results[i])}} : TRUE

\* Promise.all(results): a promise with the values collected so far and the
\* count of those awaited; of no results it is fulfilled at once with []
PromiseAll(H, results) ==
  LET H1 == [H EXCEPT !.promises =
               Append(@, [st |-> "pending", v |-> 0, plan |-> "none", pv |-> 0, rs |-> <<>>,
                          values |-> [i \in 1 .. Len(results) |-> 0],
                          remaining |-> Len(results)])]
      d == LastPromise(H1)
      H2 == SubscribeEach(H1, results, 1, "all", d)
  IN  [h |-> IF results = <<>> THEN SettlePromise(H2, d, "fulfilled", <<>>) ELSE H2,
       res |-> Prom(d)]

\* Promise.allSettled in place of Promise.all: a rejection is stored like a value
ReactAll_settled(H, d, i, s) ==
  LET H1 == [H EXCEPT !.promises[d].values[i] = s.v,
                      !.promises[d].remaining = @ - 1]
  IN  IF H1.promises[d].remaining = 0
      THEN SettlePromise(H1, d, "fulfilled", H1.promises[d].values)
      ELSE H1

\* the reaction of Promise.all to its i-th promise s: a value is stored, and the
\* last one awaited fulfils d with the values; a rejection rejects d
ReactAll(H, d, i, s) ==
  IF s.st = "rejected" THEN SettlePromise(H, d, "rejected", s.v)
  ELSE LET H1 == [H EXCEPT !.promises[d].values[i] = s.v,
                           !.promises[d].remaining = @ - 1]
       IN  IF H1.promises[d].remaining = 0
           THEN SettlePromise(H1, d, "fulfilled", H1.promises[d].values)
           ELSE H1

\* (mutant) a race that follows the first of the results only
PromiseRace_firstOnly(H, results) ==
  LET H1 == NewPromise(H, "none", 0)
      d == LastPromise(H1)
  IN  [h |-> SubscribeEach(H1, IF results = <<>> THEN <<>> ELSE <<results[1]>>, 1, "follow", d), res |-> Prom(d)]

\* Promise.race(results): the promise settles as the first of them that does
PromiseRace(H, results) ==
  LET H1 == NewPromise(H, "none", 0)
      d == LastPromise(H1)
  IN  [h |-> SubscribeEach(H1, results, 1, "follow", d), res |-> Prom(d)]

\* the heap after flows.map, with what the map came to kept in fan for those who
\* observe the call: the results returned, and whether and with what a flow threw
Mapped(called) ==
  [called.h EXCEPT !.fan = [results |-> called.results, threw |-> called.threw,
                            e |-> called.e]]

\* the function of parallel(flows), an async function
ParallelFn(t, x, H) ==
  CHOOSE o \in
    {IF called.threw THEN AsyncReturn([h |-> Mapped(called), res |-> Throw(called.e)])
     ELSE AsyncReturn(PromiseAll(Mapped(called), called.results)) :
       called \in {MapFlows(t.flows, x, H, <<>>)}} : TRUE

\* the function of race(flows), an async function
RaceFn(t, x, H) ==
  CHOOSE o \in
    {IF called.threw THEN AsyncReturn([h |-> Mapped(called), res |-> Throw(called.e)])
     ELSE AsyncReturn(PromiseRace(Mapped(called), called.results)) :
       called \in {MapFlows(t.flows, x, H, <<>>)}} : TRUE

\* one turn of the loop for (const item of items) of map, filter and reduce, from
\* the i-th item on, acc being results or acc and d the promise of the async
\* function: the element flow is called and its result awaited; past the last
\* item the function returns acc
IterateStep(t, items, i, acc, d, H) ==
  IF i > Len(items) THEN SettlePromise(H, d, "fulfilled", acc)
  ELSE CHOOSE o \in
         {IF r.res.k = "throw" THEN SettlePromise(r.h, d, "rejected", r.res.v)
          ELSE CHOOSE o2 \in
                 {Subscribe(next.h, next.res.v,
                            Reaction("await", [of |-> t, items |-> items, acc |-> acc],
                                     d, i, next.h)) :
                    next \in {PromiseResolve(r.h, r.res)}} : TRUE :
            r \in {Call(t.f, IF t.id = "reduce" THEN <<acc, items[i]>> ELSE items[i], H)}} :
         TRUE

\* (mutant) a loop that goes on with the next item when the awaited call rejected
ReactAwait_skipsRejected(H, r, s) ==
  LET t == r.t.of
      item == r.t.items[r.in]
      acc == CASE s.st = "rejected" -> r.t.acc
               [] t.id = "map" -> Append(r.t.acc, s.v)
               [] t.id = "filter" -> IF s.v # 0 THEN Append(r.t.acc, item) ELSE r.t.acc
               [] OTHER -> s.v
  IN  IterateStep(t, r.t.items, r.in + 1, acc, r.d, H)

\* the loop resumes after await: a rejection is thrown out of the async function,
\* a value goes into results (map), decides whether the item does (filter), or is
\* the new acc (reduce), and the loop takes its next turn
ReactAwait(H, r, s) ==
  IF s.st = "rejected" THEN SettlePromise(H, r.d, "rejected", s.v)
  ELSE LET t == r.t.of
           item == r.t.items[r.in]
           acc == CASE t.id = "map" -> Append(r.t.acc, s.v)
                    [] t.id = "filter" -> IF s.v # 0 THEN Append(r.t.acc, item) ELSE r.t.acc
                    [] OTHER -> s.v
       IN  IterateStep(t, r.t.items, r.in + 1, acc, r.d, H)

\* the function of map, filter and reduce, an async function over items
IterateFn(t, items, H) ==
  LET H1 == NewPromise(H, "none", 0) IN
  [h |-> IterateStep(t, items, 1, t.initial, LastPromise(H1), H1),
   res |-> Prom(LastPromise(H1))]

\* fn(input), fn being the function given to flow()
Fn(t, x, H) ==
  CASE t.k = "flow" -> UserFn(t, x, 0, H)
    [] t.k = "run" -> ContextRun(t.c, t.t, x, H)
    [] t.k = "parallel" -> ParallelFn(t, x, H)
    [] t.k = "race" -> RaceFn(t, x, H)
    [] t.k = "iterate" -> IterateFn(t, x, H)
    [] OTHER -> WithContext(t.c, t.t, x, H)

\* (mutant) a flowFn whose try/catch is all there is: the rejection of a pending
\* result is passed on, onError is not attached to it
FlowFn_syncOnly(t, x, H) ==
  IF t.onError # "none"
  THEN LET r == Fn(t, x, H)
           o == CASE r.res.k = "throw" -> OnError(t, r.res.v, x, r.h)
                  [] OTHER -> r
       IN  [h |-> IF t.k = "flow" THEN [o.h EXCEPT !.invs[Len(H.invs) + 1].out = o.res]
                  ELSE o.h,
            res |-> o.res]
  ELSE Fn(t, x, H)

\* flowFn: the function a Flow built by flow() is
FlowFn(t, x, H) ==
  IF t.onError # "none"
  THEN LET r == Fn(t, x, H)
           o == CASE r.res.k = "promise" -> Catch(r.h, r.res.v, t, x)
                  [] r.res.k = "throw" -> OnError(t, r.res.v, x, r.h)
                  [] OTHER -> r
       IN  [h |-> IF t.k = "flow" THEN [o.h EXCEPT !.invs[Len(H.invs) + 1].out = o.res]
                  ELSE o.h,
            res |-> o.res]
  ELSE Fn(t, x, H)

\* flow(input), by the kind of Flow
Call(t, x, H) ==
  CASE t.k = "contextual" -> ContextualFn(t, x, H)
    [] t.k = "piped" -> PipedFn(t.l, t.r, x, H)
    [] t.k = "cpiped" -> PipedFn(t.l, t.r, x, H)
    [] OTHER -> FlowFn(t, x, H)

\* The IO monad (packages/effects/src/index.ts): an IO holds a computation, map
\* and flatMap build a new IO around it, run() calls the computation.

\* new IO(() => c(x)), c a user function
IO(c, x) == [k |-> "io", op |-> "new", c |-> c, x |-> x]

\* IO.of(value): new IO(() => value)
IOof(value) == [k |-> "io", op |-> "of", x |-> value]

\* self.map(fn): new IO(async () => fn(await this.computation()))
IOmap(self, fn) == [k |-> "io", op |-> "map", src |-> self, fn |-> fn]

\* self.flatMap(fn): new IO(async () => { const value = await this.computation();
\* return fn(value).run() }); the fn of the model returns IO.of(its value)
IOflatMap(self, fn) == [k |-> "io", op |-> "flatMap", src |-> self, fn |-> fn]

RECURSIVE IOcomputation(_, _)

\* this.computation(): the function the IO was constructed with is called; those
\* of map and flatMap are async functions that call the computation of the IO they
\* were built from and await it
IOcomputation(self, H) ==
  CASE self.op = "new" -> UserFn(self.c, self.x, 0, H)
    [] self.op = "of" -> [h |-> H, res |-> Val(self.x)]
    [] OTHER ->
         CHOOSE o \in
           {LET H1 == NewPromise(src.h, "none", 0)
                d == LastPromise(H1)
            IN  IF src.res.k = "throw"
                THEN [h |-> SettlePromise(H1, d, "rejected", src.res.v), res |-> Prom(d)]
                ELSE CHOOSE o2 \in
                       {[h |-> Subscribe(next.h, next.res.v,
                                         Reaction("io", self, d, 0, next.h)),
                         res |-> Prom(d)] :
                          next \in {PromiseResolve(H1, src.res)}} : TRUE :
              src \in {IOcomputation(self.src, H)}} : TRUE

\* async run(): return this.computation()
IOrun(self, H) ==
  CHOOSE o \in {AsyncReturn(r) : r \in {IOcomputation(self, H)}} : TRUE

\* (mutant) an IO whose map and flatMap drop the function: the value goes through
ResumeIO_dropsFn(H, r, s) == SettlePromise(H, r.d, s.st, s.v)

\* the async function of map or flatMap resumes after await: a rejection is
\* thrown, a value is given to fn; map returns what fn returns, flatMap returns
\* the promise of run() of the IO fn returns
ResumeIO(H, r, s) ==
  IF s.st = "rejected" THEN SettlePromise(H, r.d, "rejected", s.v)
  ELSE CHOOSE o \in
         {IF r.t.op = "map" \/ c.res.k = "throw" THEN ResolvePromise(c.h, r.d, c.res)
          ELSE CHOOSE o2 \in
                 {ResolvePromise(ran.h, r.d, ran.res) :
                    ran \in {IOrun(IOof(c.res.v), c.h)}} : TRUE :
            c \in {UserFn(r.t.fn, s.v, 0, H)}} : TRUE

\* one promise job: the reaction r to the settled promise s
React(r, s, H) ==
  CASE r.k = "then" ->
         IF s.st = "fulfilled"
         THEN LET c == Call(r.t, s.v, H) IN ResolvePromise(c.h, r.d, c.res)
         ELSE SettlePromise(H, r.d, "rejected", s.v)
    [] r.k = "catch" ->
         IF s.st = "rejected"
         THEN LET c == OnError(r.t, s.v, r.in, H) IN ResolvePromise(c.h, r.d, c.res)
         ELSE SettlePromise(H, r.d, "fulfilled", s.v)
    [] r.k = "all" -> ReactAll(H, r.d, r.in, s)
    [] r.k = "await" -> ReactAwait(H, r, s)
    [] r.k = "io" -> ResumeIO(H, r, s)
    [] OTHER -> SettlePromise(H, r.d, s.st, s.v)

Commit(H) ==
  /\ promises' = H.promises
  /\ jobs' = H.jobs
  /\ invs' = H.invs
  /\ store' = H.store
  /\ asyncLocalStorage' = H.als

----------------------------------------------------------------------------
(* Top-level calls, and the steps of the event loop. *)

\* what a top-level call has come to: how it ended (or "pending"), with what,
\* and whether it returned directly or through a promise
Outcome(res) ==
  IF res.k = "promise"
  THEN [mode |-> "async", st |-> promises[res.v].st, v |-> promises[res.v].v]
  ELSE [mode |-> "sync", st |-> IF res.k = "val" THEN "fulfilled" ELSE "rejected",
        v |-> res.v]

Done(res) == Outcome(res).st # "pending"

\* the next job of the queue runs to completion, in the execution context its
\* reaction was registered in
NextJob ==
  /\ jobs # <<>>
  /\ LET j == Head(jobs)
         H0 == [Heap EXCEPT !.jobs = Tail(jobs), !.store = j.r.store, !.call = j.r.call]
         H1 == React(j.r, promises[j.p], H0)
     IN  Commit([H1 EXCEPT !.store = store])

RunJob == NextJob /\ UNCHANGED <<hasALS, calls, sc, ctxs, ops, handlers>>

\* the environment settles the pending promise of an asynchronous user function
SettleOne ==
  \E p \in 1 .. Len(promises) :
    /\ promises[p].st = "pending"
    /\ promises[p].plan # "none"
    /\ Commit(SettlePromise(Heap, p, promises[p].plan, promises[p].pv))

Settle == SettleOne /\ UNCHANGED <<hasALS, calls, sc, ctxs, ops, handlers>>

----------------------------------------------------------------------------
(* The flow programs: the property tests of test-utils and the pipelines    *)
(* of the README, over flows f, g, h and an input x.                       *)

OnErrorModes == {"none", "value", "throw"}

\* the flows a program may be given for the stage named id
Stages(id) ==
  {Flow(id, a, o, e) : a \in BOOLEAN, o \in BOOLEAN, e \in OnErrorModes}
    \cup {Contextual(id, a, o, emptyContext) : a \in BOOLEAN, o \in BOOLEAN}

\* the calls a program makes, one after the other, each awaited
Program(prog) ==
  CASE prog = "associativity" -> <<"L", "R">>
    [] prog = "identity" -> <<"IF", "FI", "F">>
    [] prog = "pipe" -> <<"FG">>
    [] prog = "meta" -> <<sc.shape>>
    [] prog = "compose0" -> <<"C0">>
    [] prog = "compose1" -> <<"C1", "F">>
    [] prog = "compose2" -> <<"C2", "FG">>
    [] prog = "compose3" -> <<"C", "L">>
    [] OTHER -> <<"C">>

\* the flow each call applies
TermOf(shape) ==
  CASE shape = "L" -> PipeOf(PipeOf(sc.f, sc.g), sc.h)
    [] shape = "R" -> PipeOf(sc.f, PipeOf(sc.g, sc.h))
    [] shape = "IF" -> PipeOf(identity, sc.f)
    [] shape = "FI" -> PipeOf(sc.f, identity)
    [] shape = "F" -> sc.f
    [] shape = "FG" -> PipeOf(sc.f, sc.g)
    [] shape = "C0" -> compose(<<>>)
    [] shape = "C1" -> compose(<<sc.f>>)
    [] shape = "C2" -> compose(<<sc.f, sc.g>>)
    [] OTHER -> compose(<<sc.f, sc.g, sc.h>>)

NoContexts == <<>>

FlowInit ==
  /\ hasALS \in BOOLEAN
  /\ asyncLocalStorage = FALSE
  /\ store = 0
  /\ promises = <<>>
  /\ jobs = <<>>
  /\ invs = <<>>
  /\ calls = <<>>
  /\ ctxs = NoContexts
  /\ ops = <<>>
  /\ handlers = {}
  /\ \E prog \in {"associativity", "identity", "pipe", "compose"}, x \in Inputs :
       \E f \in Stages("f") :
         \E g \in (IF prog = "identity" THEN {identity} ELSE Stages("g")) :
           \E h \in (IF prog \in {"identity", "pipe"} THEN {identity} ELSE Stages("h")) :
             sc = [prog |-> prog, f |-> f, g |-> g, h |-> h, x |-> x]

\* the program makes its next call once the call before it has been awaited
StartCall ==
  /\ Len(calls) < Len(Program(sc.prog))
  /\ jobs = <<>>
  /\ \A i \in 1 .. Len(calls) : Done(calls[i].res)
  /\ LET shape == Program(sc.prog)[Len(calls) + 1]
         r == Call(TermOf(shape), sc.x, [Heap EXCEPT !.call = Len(calls) + 1])
     IN  /\ Commit(r.h)
         /\ calls' = Append(calls, [shape |-> shape, res |-> r.res])
  /\ UNCHANGED <<hasALS, sc, ctxs, ops, handlers>>

FlowNext == StartCall \/ RunJob \/ Settle

SpecFlow == FlowInit /\ [][FlowNext]_vars

----------------------------------------------------------------------------
(* Properties of pipe and compose. *)

\* the invocations, by a top-level call, of the user function of a stage
InvsOf(call, leaf) ==
  {n \in 1 .. Len(invs) :
     invs[n].call = call /\ invs[n].leaf = leaf /\ invs[n].fn = "fn"}

\* the stages of each call, in pipeline order
StagesOf(shape) ==
  CASE shape \in {"L", "R"} -> <<"f", "g", "h">>
    [] shape = "IF" -> <<"identity", "f">>
    [] shape = "FI" -> <<"f", "identity">>
    [] shape = "F" -> <<"f">>
    [] shape = "FG" -> <<"f", "g">>
    [] OTHER -> <<"f", "g", "h">>

CallsOf(shape) == {i \in 1 .. Len(calls) : calls[i].shape = shape}

\* C1: f.pipe(g).pipe(h)(x) and f.pipe(g.pipe(h))(x) end with the same outcome:
\* both return the same value or both fail with the same error, and in the same
\* way (directly, or through a promise)
C1_Associativity ==
  \A i \in CallsOf("L"), j \in CallsOf("R") :
    (Done(calls[i].res) /\ Done(calls[j].res))
      => Outcome(calls[i].res) = Outcome(calls[j].res)

\* both groupings have completed, on an asynchronous f, through g, in the error
\* of a failing h
C1_Witness ==
  /\ sc.prog = "associativity"
  /\ Len(calls) = 2
  /\ sc.f.async /\ sc.f.ok /\ sc.g.ok /\ ~sc.h.ok /\ sc.h.k = "flow" /\ sc.h.onError = "none"
  /\ Outcome(calls[1].res) = [mode |-> "async", st |-> "rejected",
                              v |-> ErrorOf("h", Apply("g", Apply("f", sc.x)))]
  /\ Done(calls[2].res)

\* C2: identity().pipe(f)(x), f.pipe(identity())(x) and f(x) end with the same
\* outcome
C2_IdentityLaws ==
  \A i \in CallsOf("F"), j \in CallsOf("IF") \cup CallsOf("FI") :
    (Done(calls[i].res) /\ Done(calls[j].res))
      => Outcome(calls[i].res) = Outcome(calls[j].res)

\* the three calls of the identity program have completed, for an asynchronous f
C2_Witness ==
  /\ sc.prog = "identity"
  /\ Len(calls) = 3
  /\ sc.f.async
  /\ \A i \in 1 .. 3 : Done(calls[i].res)
  /\ Outcome(calls[3].res).st = "fulfilled"
  /\ Outcome(calls[3].res).v = Apply("f", sc.x)

\* C3: in f.pipe(g)(x), f is applied to x, once; g is invoked at most once, and
\* only when f's result is there, with that result as its input (never while f
\* is pending, never after f failed); once f has succeeded and the call has
\* completed, g has been invoked exactly once and the call ended as g did
C3_PipeSequencing ==
  \A i \in CallsOf("FG") :
    LET F == InvsOf(i, "f")
        G == InvsOf(i, "g")
        end == Outcome(calls[i].res)
    IN  /\ Cardinality(F) = 1
        /\ \A n \in F : invs[n].in = sc.x
        /\ Cardinality(G) <= 1
        /\ \A m \in G : \E n \in F :
             /\ n < m
             /\ Outcome(invs[n].out).st = "fulfilled"
             /\ invs[m].in = Outcome(invs[n].out).v
        /\ \A n \in F :
             (Outcome(invs[n].out).st = "fulfilled" /\ end.st # "pending")
               => Cardinality(G) = 1
        /\ \A m \in G :
             end.st # "pending" =>
               /\ end.st = Outcome(invs[m].out).st
               /\ end.v = Outcome(invs[m].out).v

\* f.pipe(g)(x) has completed with g's value of f's value, f and g asynchronous
C3_Witness ==
  /\ sc.prog = "pipe"
  /\ sc.f.async /\ sc.f.ok /\ sc.g.async /\ sc.g.ok
  /\ Len(calls) = 1
  /\ Cardinality(InvsOf(1, "g")) = 1
  /\ Outcome(calls[1].res) =
       [mode |-> "async", st |-> "fulfilled", v |-> Apply("g", Apply("f", sc.x))]

\* C4: when a stage of a chain built with pipe or compose fails, no later stage
\* of the chain is invoked, the chain never succeeds, and it ends with exactly
\* the error of that stage
C4_ErrorShortCircuit ==
  \A i \in 1 .. Len(calls) :
    LET st == StagesOf(calls[i].shape)
        end == Outcome(calls[i].res)
    IN  \A k \in 1 .. Len(st) : \A n \in InvsOf(i, st[k]) :
          Outcome(invs[n].out).st = "rejected" =>
            /\ \A k2 \in (k + 1) .. Len(st) : InvsOf(i, st[k2]) = {}
            /\ end.st # "fulfilled"
            /\ end.st = "rejected" => end.v = Outcome(invs[n].out).v

\* compose(f, g, h)(x) has failed with the error the asynchronous g rejected
\* with, after f succeeded, and h was not invoked
C4_Witness ==
  /\ sc.prog = "compose"
  /\ sc.f.ok /\ sc.g.async /\ ~sc.g.ok /\ sc.g.k = "flow" /\ sc.g.onError = "none"
  /\ Len(calls) = 1
  /\ InvsOf(1, "h") = {}
  /\ Outcome(calls[1].res) =
       [mode |-> "async", st |-> "rejected", v |-> ErrorOf("g", Apply("f", sc.x))]

\* the invocations, by a top-level call, of the onError handler of a stage
HandlerInvsOf(call, leaf) ==
  {m \in 1 .. Len(invs) :
     invs[m].call = call /\ invs[m].leaf = leaf /\ invs[m].fn = "onError"}

\* the invocations of the function of a flow built with the onError option
GuardedInvs ==
  {n \in 1 .. Len(invs) :
     /\ invs[n].fn = "fn"
     /\ invs[n].leaf \in {"f", "g", "h"}
     /\ sc[invs[n].leaf].k = "flow"
     /\ sc[invs[n].leaf].onError # "none"}

\* C29: of a flow built with onError, the handler is invoked only once the
\* function has thrown or its promise has rejected, at most once, with that error
\* and the input of the flow; the flow then ends as the handler ends, and
\* otherwise as the function does; the stage after it in a chain is invoked on
\* the value the flow ended with, the handler's value when the function failed
C29_OnErrorRecovers ==
  \A n \in GuardedInvs :
    LET i == invs[n]
        hs == HandlerInvsOf(i.call, i.leaf)
        failed == Outcome(i.res).st = "rejected"
        st == StagesOf(calls[i.call].shape)
    IN  /\ Cardinality(hs) <= 1
        /\ ~failed => hs = {}
        /\ \A m \in hs :
             /\ m > n
             /\ invs[m].err = Outcome(i.res).v
             /\ invs[m].in = i.in
             /\ Done(i.out) =>
                  /\ Outcome(i.out).st = Outcome(invs[m].res).st
                  /\ Outcome(i.out).v = Outcome(invs[m].res).v
        /\ (failed /\ (i.res.k = "throw" \/ Done(i.out))) => hs # {}
        /\ (~failed /\ Done(i.out)) =>
             /\ Outcome(i.out).st = "fulfilled"
             /\ Outcome(i.out).v = Outcome(i.res).v
        /\ \A k \in 1 .. (Len(st) - 1) :
             st[k] = i.leaf =>
               /\ \A n2 \in InvsOf(i.call, st[k + 1]) :
                    /\ Outcome(i.out).st = "fulfilled"
                    /\ invs[n2].in = Outcome(i.out).v
               /\ (Done(calls[i.call].res) /\ Outcome(i.out).st = "fulfilled") =>
                    Cardinality(InvsOf(i.call, st[k + 1])) = 1

\* f.pipe(g)(x) has completed with g's value of the value the handler of f gave
\* for the error the promise of f rejected with
C29_Witness ==
  /\ sc.prog = "pipe"
  /\ sc.f.k = "flow" /\ sc.f.async /\ ~sc.f.ok /\ sc.f.onError = "value"
  /\ sc.g.k = "flow" /\ sc.g.ok
  /\ Len(calls) = 1
  /\ Cardinality(HandlerInvsOf(1, "f")) = 1
  /\ \A n \in InvsOf(1, "g") :
       invs[n].in = HandlerValue("f", ErrorOf("f", sc.x), sc.x)
  /\ Done(calls[1].res)
  /\ Outcome(calls[1].res).st = "fulfilled"
  /\ Outcome(calls[1].res).v =
       Apply("g", HandlerValue("f", ErrorOf("f", sc.x), sc.x))

----------------------------------------------------------------------------
(* The immutable Context: instances by identity, each with its own Map of   *)
(* bindings, its parent (0: none) and its frozen flag.                     *)

\* bindings are keyed by strings and by symbols
StringKeys == {"a", "b"}
SymbolKeys == {"Symbol(s)"}
Keys == StringKeys \cup SymbolKeys

\* at most MaxContexts instances are created
MaxContexts == 4

NoBindings == [k \in {} |-> 0]

\* {key: value}
Binding(key, value) == [k \in {key} |-> value]

\* the objects of bindings a caller passes: one key with either of two values, a
\* symbol key, two string keys (0 stands for undefined, the absent value)
Bindings ==
  {Binding("a", 1), Binding("a", 2), Binding("Symbol(s)", 1),
   [k \in {"a", "b"} |-> IF k = "a" THEN 1 ELSE 2]}

\* Object.entries(values): the properties with string keys
ObjectEntries(values) == [k \in (DOMAIN values) \cap StringKeys |-> values[k]]

\* Object.getOwnPropertySymbols(values), with values[sym]
OwnSymbols(values) == [k \in (DOMAIN values) \cap SymbolKeys |-> values[k]]

\* map.set(key, value) for each of the entries
MapSetAll(map, entries) ==
  [k \in (DOMAIN map) \cup (DOMAIN entries) |->
     IF k \in DOMAIN entries THEN entries[k] ELSE map[k]]

\* new ImmutableContext(initial, parent): data is a copy of a Map, or the
\* Object.entries of a record; a new instance is open
ImmutableContext(kind, initial, parent) ==
  [data |-> IF kind = "map" THEN initial ELSE ObjectEntries(initial),
   parent |-> parent, frozen |-> FALSE]

RECURSIVE Get(_, _, _)

\* (mutant) a get that asks the parent first and falls back to the own bindings
Get_parentFirst(C, c, key) ==
  IF C[c].parent # 0 /\ Get(C, C[c].parent, key) # 0 THEN Get(C, C[c].parent, key)
  ELSE IF key \in DOMAIN C[c].data THEN C[c].data[key]
  ELSE 0

\* c.get(key), C being the instances
Get(C, c, key) ==
  IF key \in DOMAIN C[c].data THEN C[c].data[key]
  ELSE IF C[c].parent # 0 THEN Get(C, C[c].parent, key)
  ELSE 0

RECURSIVE Has(_, _, _)

\* c.has(key)
Has(C, c, key) ==
  IF key \in DOMAIN C[c].data THEN TRUE
  ELSE IF C[c].parent # 0 THEN Has(C, C[c].parent, key)
  ELSE FALSE

RECURSIVE ParentKeys(_, _)

\* the keys the loop of keys() adds, from parent upwards
ParentKeys(C, parent) ==
  IF parent = 0 THEN {}
  ELSE (DOMAIN C[parent].data) \cup ParentKeys(C, C[parent].parent)

\* c.keys(): the array of a Set holds each key once
ContextKeys(C, c) == (DOMAIN C[c].data) \cup ParentKeys(C, C[c].parent)

\* what an operation on a context returned: a context, a value, or an error
Returned(k, v) == [k |-> k, v |-> v]

\* (mutant) a with that sets the values in the receiver's own Map and returns the
\* receiver
With_inPlace(C, c, values) ==
  IF C[c].frozen
  THEN [ctxs |-> C, res |-> Returned("error", "Cannot modify frozen context")]
  ELSE LET newData == MapSetAll(MapSetAll(C[c].data, ObjectEntries(values)),
                                OwnSymbols(values))
       IN  [ctxs |-> [C EXCEPT ![c].data = newData], res |-> Returned("context", c)]

\* c.with(values): throws on a frozen receiver, else a new instance over a copy of
\* the receiver's own Map with the values set, on the receiver's parent
With(C, c, values) ==
  IF C[c].frozen
  THEN [ctxs |-> C, res |-> Returned("error", "Cannot modify frozen context")]
  ELSE LET newData == MapSetAll(MapSetAll(C[c].data, ObjectEntries(values)),
                                OwnSymbols(values))
       IN  [ctxs |-> Append(C, ImmutableContext("map", newData, C[c].parent)),
            res |-> Returned("context", Len(C) + 1)]

\* c.fork(): a new, empty instance whose parent is the receiver
Fork(C, c) ==
  [ctxs |-> Append(C, ImmutableContext("map", NoBindings, c)),
   res |-> Returned("context", Len(C) + 1)]

\* (mutant) a freeze that returns a frozen copy and leaves the receiver open
Freeze_copy(C, c) ==
  [ctxs |-> Append(C, [C[c] EXCEPT !.frozen = TRUE]),
   res |-> Returned("context", Len(C) + 1)]

\* (mutant) a freeze that marks the receiver and its parent
Freeze_withParent(C, c) ==
  [ctxs |-> [i \in 1 .. Len(C) |->
               IF i = c \/ i = C[c].parent THEN [C[i] EXCEPT !.frozen = TRUE] ELSE C[i]],
   res |-> Returned("context", c)]

\* c.freeze(): marks the receiver and returns it
Freeze(C, c) ==
  [ctxs |-> [C EXCEPT ![c].frozen = TRUE], res |-> Returned("context", c)]

\* context(initial)
context(C, initial) ==
  [ctxs |-> Append(C, ImmutableContext("record", initial, 0)),
   res |-> Returned("context", Len(C) + 1)]

\* emptyContext = context().freeze(), made when the module is loaded
ModuleContexts == Freeze(context(<<>>, NoBindings).ctxs, 1).ctxs

----------------------------------------------------------------------------
(* Running flows under a Context: one run, two runs of unrelated call       *)
(* trees in flight together, and a run started from within a run.          *)

\* the contexts of the scenarios: context({a: 1}) and context({a: 2})
c1 == 2
c2 == 3

AmbientContexts ==
  context(context(ModuleContexts, Binding("a", 1)).ctxs, Binding("a", 2)).ctxs

\* the contextual flows a scenario may run under the context c
ContextualStages(id, c) == {Contextual(id, a, o, c) : a \in BOOLEAN, o \in BOOLEAN}

PlainStages(id) == {Flow(id, a, o, "none") : a \in BOOLEAN, o \in BOOLEAN}

\* the runs a scenario makes; those of "concurrent" are not awaited
AmbientProgram(prog) ==
  CASE prog = "run" -> <<"run1">>
    [] prog = "concurrent" -> <<"run1", "run2">>
    [] prog = "nested" -> <<"nested">>
    [] OTHER -> <<"nestedWith">>

\* the flow each run is given, and the context it is made on
AmbientTerm(shape) ==
  CASE shape = "run1" ->
         RunStage(c1, PipeOf(PipeOf(sc.a, sc.h), sc.b), "none", 0)
    [] shape = "run2" ->
         RunStage(c2, PipeOf(sc.f, sc.g), "none", 0)
    [] shape = "nested" ->
         RunStage(c1, PipeOf(PipeOf(sc.a,
                                    RunStage(c2, PipeOf(sc.f, sc.g), sc.onError, c1)),
                             sc.b), "none", 0)
    [] OTHER ->
         RunStage(c1, PipeOf(PipeOf(sc.a,
                                    WithContextStage(c2, PipeOf(sc.f, sc.g), sc.onError, c1)),
                             sc.b), "none", 0)

AmbientInit ==
  /\ hasALS \in BOOLEAN
  /\ asyncLocalStorage = FALSE
  /\ store = 0
  /\ promises = <<>>
  /\ jobs = <<>>
  /\ invs = <<>>
  /\ calls = <<>>
  /\ ctxs = AmbientContexts
  /\ ops = <<>>
  /\ handlers = {}
  /\ \E prog \in {"run", "concurrent", "nested", "nestedWith"}, x \in Inputs :
       \E a \in ContextualStages("a", c1), b \in ContextualStages("b", c1) :
         \E f \in (IF prog = "run" THEN {identity}
                   ELSE ContextualStages("f", c2)) :
           \E g \in (IF prog = "run" THEN {identity}
                     ELSE ContextualStages("g", c2)) :
             \E h \in (IF prog = "run" THEN PlainStages("h") ELSE {identity}) :
               \E e \in (IF prog \in {"nested", "nestedWith"} THEN {"none", "value"}
                         ELSE {"none"}) :
                 sc = [prog |-> prog, a |-> a, b |-> b, f |-> f, g |-> g, h |-> h,
                       onError |-> e, x |-> x]

\* a top-level c.run(flow, x): the runs of one program are awaited one after the
\* other, except those of unrelated call trees, which start whenever they do
StartRun ==
  /\ Len(calls) < Len(AmbientProgram(sc.prog))
  /\ sc.prog # "concurrent" => (jobs = <<>> /\ \A i \in 1 .. Len(calls) : Done(calls[i].res))
  /\ LET shape == AmbientProgram(sc.prog)[Len(calls) + 1]
         r == Call(AmbientTerm(shape), sc.x, [Heap EXCEPT !.call = Len(calls) + 1])
     IN  /\ Commit(r.h)
         /\ calls' = Append(calls, [shape |-> shape, res |-> r.res])
  /\ UNCHANGED <<hasALS, sc, ctxs, ops, handlers>>

AmbientNext == StartRun \/ RunJob \/ Settle

SpecAmbient == AmbientInit /\ [][AmbientNext]_vars

\* the invocations in which a user function was handed, or read, a context
Observations == {n \in 1 .. Len(invs) : invs[n].expect # 0}

\* C5: while c.run(f, x) evaluates f, every contextual stage of f is handed c:
\* the first stage, called inside run, and the stages called after a suspension
C5_RunInstallsContext ==
  sc.prog = "run" =>
    \A n \in Observations : invs[n].ctx = c1 /\ invs[n].ctx = invs[n].expect

\* C6: with c1.run(f1, x) and c2.run(f2, x) in flight together, under every
\* interleaving the stages of f1 are handed c1 and the stages of f2 are handed c2
C6_ConcurrentRunsIsolated ==
  sc.prog = "concurrent" =>
    \A n \in Observations :
      /\ invs[n].call = 1 => invs[n].ctx = c1
      /\ invs[n].call = 2 => invs[n].ctx = c2

\* C7: nested runs are a stack: the stages of the inner c2.run are handed c2; the
\* code that continues in the outer c1.run after the inner run ended (the next
\* stage on success, the onError handler on failure) sees c1; and between the
\* jobs of the event loop, outside every run, the slot holds nothing
C7_NestedRunsStack ==
  sc.prog \in {"nested", "nestedWith"} =>
    /\ \A n \in Observations :
         /\ invs[n].leaf \in {"f", "g"} => invs[n].ctx = c2
         /\ invs[n].leaf \in {"a", "b", "run"} => invs[n].ctx = c1
    /\ store = 0

----------------------------------------------------------------------------
(* A program that builds contexts: context(), with, fork and freeze in any   *)
(* order. The reads get, has and keys change nothing and are the operators *)
(* above, applied to the instances of a state. ops keeps the last          *)
(* operation with what it returned, the instances freeze() was called on,  *)
(* and what the reads of each instance returned when it was created.       *)

Operation(op, recv, arg, res) == [op |-> op, recv |-> recv, arg |-> arg, res |-> res]

\* what the reads of c return: get and has of every key, and keys()
Reads(C, c) ==
  [get |-> [k \in Keys |-> Get(C, c, k)],
   has |-> {k \in Keys : Has(C, c, k)},
   keys |-> ContextKeys(C, c)]

ContextInit ==
  /\ hasALS = FALSE
  /\ asyncLocalStorage = FALSE
  /\ store = 0
  /\ promises = <<>>
  /\ jobs = <<>>
  /\ invs = <<>>
  /\ calls = <<>>
  /\ sc = [prog |-> "context", bindings |-> Bindings]
  /\ handlers = {}
  /\ ctxs = ModuleContexts
  /\ ops = [last |-> Operation("freeze", emptyContext, 0, Returned("context", emptyContext)),
            froze |-> {emptyContext},
            born |-> [c \in 1 .. Len(ModuleContexts) |-> Reads(ModuleContexts, c)]]

Instances == 1 .. Len(ctxs)

Performed(op, recv, arg, r) ==
  /\ ctxs' = r.ctxs
  /\ ops' = [last |-> Operation(op, recv, arg, r.res),
             froze |-> IF op = "freeze" THEN ops.froze \cup {recv} ELSE ops.froze,
             born |-> [c \in 1 .. Len(r.ctxs) |->
                        IF c <= Len(ctxs) THEN ops.born[c] ELSE Reads(r.ctxs, c)]]
  /\ UNCHANGED <<hasALS, asyncLocalStorage, store, promises, jobs, invs, calls, sc, handlers>>

DoContext ==
  /\ Len(ctxs) < MaxContexts
  /\ \E b \in sc.bindings : Performed("context", 0, b, context(ctxs, b))

DoWith ==
  /\ Len(ctxs) < MaxContexts
  /\ \E c \in Instances, b \in sc.bindings : Performed("with", c, b, With(ctxs, c, b))

DoFork ==
  /\ Len(ctxs) < MaxContexts
  /\ \E c \in Instances : Performed("fork", c, 0, Fork(ctxs, c))

DoFreeze == \E c \in Instances : Performed("freeze", c, 0, Freeze(ctxs, c))

ContextNext == DoContext \/ DoWith \/ DoFork \/ DoFreeze

SpecContext == ContextInit /\ [][ContextNext]_vars

----------------------------------------------------------------------------
(* Properties of the Context. *)

RECURSIVE Chain(_, _)

\* c, its parent, the parent of its parent, ...
Chain(C, c) == IF c = 0 THEN <<>> ELSE <<c>> \o Chain(C, C[c].parent)

Min(S) == CHOOSE x \in S : \A y \in S : x <= y

\* C8: no operation changes what an existing context shows: after any sequence
\* of context(), with, fork and freeze, get and has of every key and keys() of
\* every instance return what they returned when the instance was created; and
\* a with that returns a context returns a new instance, not the receiver
C8_ContextsNeverChange ==
  /\ \A c \in 1 .. Len(ctxs) : Reads(ctxs, c) = ops.born[c]
  /\ (ops.last.op = "with" /\ ops.last.res.k = "context") =>
       /\ ops.last.res.v # ops.last.recv
       /\ ops.last.res.v = Len(ctxs)
       /\ Len(ops.born) = Len(ctxs)

\* a with on a child forked from c has returned a new context that binds "a" to
\* 2, and c, which binds "a" to 1, and the child still show 1
C8_Witness ==
  /\ ops.last.op = "with"
  /\ ops.last.res.k = "context"
  /\ ops.last.arg = Binding("a", 2)
  /\ ctxs[ops.last.recv].parent # 0
  /\ "a" \in DOMAIN ctxs[ctxs[ops.last.recv].parent].data
  /\ Get(ctxs, ctxs[ops.last.recv].parent, "a") = 1
  /\ Get(ctxs, ops.last.recv, "a") = 1
  /\ Get(ctxs, ops.last.res.v, "a") = 2

\* C9: get returns the binding of the nearest holder along the parent chain: the
\* context's own binding before any ancestor's, an ancestor's when the context
\* has none, the absent value when no context of the chain binds the key; and
\* c.with({k: v}).get(k) is v
C9_GetNearestBinding ==
  /\ \A c \in 1 .. Len(ctxs), k \in Keys :
       LET chain == Chain(ctxs, c)
           holders == {i \in 1 .. Len(chain) : k \in DOMAIN ctxs[chain[i]].data}
       IN  IF holders = {} THEN Get(ctxs, c, k) = 0
           ELSE Get(ctxs, c, k) = ctxs[chain[Min(holders)]].data[k]
  /\ (ops.last.op = "with" /\ ops.last.res.k = "context") =>
       \A k \in DOMAIN ops.last.arg : Get(ctxs, ops.last.res.v, k) = ops.last.arg[k]

\* a context binds "a" to 2 over a parent that binds "a" to 1 and "b", which the
\* context does not bind
C9_Witness ==
  \E c \in 1 .. Len(ctxs) :
    /\ ctxs[c].parent # 0
    /\ "a" \in DOMAIN ctxs[c].data
    /\ "b" \notin DOMAIN ctxs[c].data
    /\ Get(ctxs, c, "a") = 2
    /\ Get(ctxs, ctxs[c].parent, "a") = 1
    /\ Get(ctxs, c, "b") = 2
    /\ Get(ctxs, c, "Symbol(s)") = 0

\* C10: once freeze() has been called on c, c stays frozen; every with on c
\* throws the frozen-context error and creates nothing, whatever was done in
\* between; fork on c returns a child of c, and get, has and keys return
C10_FrozenStaysFrozen ==
  /\ \A c \in ops.froze :
       /\ ctxs[c].frozen
       /\ \A b \in Bindings :
            /\ With(ctxs, c, b).res = Returned("error", "Cannot modify frozen context")
            /\ With(ctxs, c, b).ctxs = ctxs
       /\ Fork(ctxs, c).res.k = "context"
       /\ Fork(ctxs, c).ctxs[Fork(ctxs, c).res.v].parent = c
       /\ \A k \in Keys : Get(ctxs, c, k) \in 0 .. 2 /\ Has(ctxs, c, k) \in BOOLEAN
       /\ ContextKeys(ctxs, c) \subseteq Keys
  /\ (ops.last.op = "with" /\ ops.last.recv \in ops.froze) =>
       ops.last.res = Returned("error", "Cannot modify frozen context")
  /\ (ops.last.op = "fork" /\ ops.last.recv \in ops.froze) =>
       /\ ops.last.res.k = "context"
       /\ ctxs[ops.last.res.v].parent = ops.last.recv

\* a with on a context that was frozen, and forked since, has thrown
C10_Witness ==
  /\ ops.last.op = "with"
  /\ ops.last.recv \in ops.froze
  /\ ops.last.recv # emptyContext
  /\ ops.last.res.k = "error"
  /\ "a" \in DOMAIN ctxs[ops.last.recv].data
  /\ \E d \in 1 .. Len(ctxs) : ctxs[d].parent = ops.last.recv /\ ~ctxs[d].frozen

\* C25: freeze() returns its receiver, and the frozen contexts are exactly those
\* freeze() was called on: the ancestors of a frozen context, the contexts made
\* from it by with or fork before, and the children forked from it afterwards
\* are open and accept with; a context that with or fork returns is open
C25_FreezeOnlyReceiver ==
  /\ \A c \in 1 .. Len(ctxs) :
       /\ ctxs[c].frozen <=> c \in ops.froze
       /\ c \notin ops.froze =>
            \A b \in Bindings : With(ctxs, c, b).res = Returned("context", Len(ctxs) + 1)
  /\ ops.last.op = "freeze" => ops.last.res = Returned("context", ops.last.recv)
  /\ (ops.last.op \in {"with", "fork"} /\ ops.last.res.k = "context") =>
       /\ ~ctxs[ops.last.res.v].frozen
       /\ ops.last.res.v \notin ops.froze

\* a child has been forked from a frozen context that has a parent: the child
\* and the parent are open
C25_Witness ==
  /\ ops.last.op = "fork"
  /\ ops.last.recv \in ops.froze
  /\ ops.last.recv # emptyContext
  /\ ctxs[ops.last.recv].parent # 0
  /\ ~ctxs[ctxs[ops.last.recv].parent].frozen
  /\ ctxs[ops.last.res.v].parent = ops.last.recv
  /\ ~ctxs[ops.last.res.v].frozen

\* C27: the context that context(b) returned shows what context().with(b) shows:
\* get and has of every key, a string or a symbol, and keys() return the same
C27_ConstructionLikeWith ==
  ops.last.op = "context" =>
    LET empty == context(ctxs, NoBindings)
        added == With(empty.ctxs, empty.res.v, ops.last.arg)
    IN  /\ added.res.k = "context"
        /\ Reads(ctxs, ops.last.res.v) = Reads(added.ctxs, added.res.v)

----------------------------------------------------------------------------
(* keys() as the array it returns, and a program of context(), with and    *)
(* fork only.                                                              *)

\* the order in which the keys of a Map are visited (the model's Maps keep none)
KeyOrder == <<"a", "b", "Symbol(s)">>

\* (mutant) keys collected in an array: keys.push(key) for each key of the Map
AddKeys_push(keys, map) ==
  LET F[i \in 0 .. Len(KeyOrder)] ==
        IF i = 0 THEN keys
        ELSE IF KeyOrder[i] \in DOMAIN map THEN Append(F[i - 1], KeyOrder[i])
        ELSE F[i - 1]
  IN  F[Len(KeyOrder)]

\* for (const key of map.keys()) keys.add(key), keys being the Set so far
AddKeys(keys, map) ==
  LET F[i \in 0 .. Len(KeyOrder)] ==
        IF i = 0 THEN keys
        ELSE IF /\ KeyOrder[i] \in DOMAIN map
                /\ \A n \in 1 .. Len(F[i - 1]) : F[i - 1][n] # KeyOrder[i]
             THEN Append(F[i - 1], KeyOrder[i])
        ELSE F[i - 1]
  IN  F[Len(KeyOrder)]

RECURSIVE KeysLoop(_, _, _)

\* while (parent) { add the parent's keys; parent = parent.parent }
KeysLoop(C, parent, keys) ==
  IF parent = 0 THEN keys
  ELSE KeysLoop(C, C[parent].parent, AddKeys(keys, C[parent].data))

\* c.keys(): Array.from(keys)
KeysArray(C, c) == KeysLoop(C, C[c].parent, AddKeys(<<>>, C[c].data))

\* the objects of bindings of the program of keys: those above, {b: 2} and {}
KeyBindings == Bindings \cup {Binding("b", 2), NoBindings}

KeysInit ==
  /\ hasALS = FALSE
  /\ asyncLocalStorage = FALSE
  /\ store = 0
  /\ promises = <<>>
  /\ jobs = <<>>
  /\ invs = <<>>
  /\ calls = <<>>
  /\ sc = [prog |-> "keys", bindings |-> KeyBindings]
  /\ handlers = {}
  /\ ctxs = ModuleContexts
  /\ ops = [last |-> Operation("freeze", emptyContext, 0, Returned("context", emptyContext)),
            froze |-> {emptyContext},
            born |-> [c \in 1 .. Len(ModuleContexts) |-> Reads(ModuleContexts, c)]]

KeysNext == DoContext \/ DoWith \/ DoFork

SpecKeys == KeysInit /\ [][KeysNext]_vars

\* C15: c.keys() holds exactly the keys bound by c or by one of its ancestors,
\* each once, and c.has(k) is true exactly for the keys of c.keys(); the keys
\* of context({a: 1}).with({b: 2}) are a and b
C15_KeysAreChainKeys ==
  /\ \A c \in Instances :
       LET keys == KeysArray(ctxs, c) IN
       /\ {keys[i] : i \in 1 .. Len(keys)} =
            UNION {DOMAIN ctxs[Chain(ctxs, c)[i]].data : i \in 1 .. Len(Chain(ctxs, c))}
       /\ \A i \in 1 .. Len(keys), j \in 1 .. Len(keys) : keys[i] = keys[j] => i = j
       /\ \A k \in Keys : Has(ctxs, c, k) <=> \E i \in 1 .. Len(keys) : keys[i] = k
  /\ (/\ ops.last.op = "with"
      /\ ops.last.arg = Binding("b", 2)
      /\ ops.born[ops.last.recv].keys = {"a"}
      /\ ctxs[ops.last.recv].parent = 0) =>
       /\ Len(KeysArray(ctxs, ops.last.res.v)) = 2
       /\ {KeysArray(ctxs, ops.last.res.v)[i] : i \in 1 .. 2} = {"a", "b"}

\* a with has bound a in a child of a context that binds a and b: the keys of
\* the result are two
C15_Witness ==
  /\ sc.prog = "keys"
  /\ ops.last.op = "with"
  /\ ops.last.res.k = "context"
  /\ "a" \in DOMAIN ops.last.arg
  /\ ctxs[ops.last.res.v].parent # 0
  /\ {"a", "b"} \subseteq DOMAIN ctxs[ctxs[ops.last.res.v].parent].data
  /\ Len(KeysArray(ctxs, ops.last.res.v)) = 2
  /\ Has(ctxs, ops.last.res.v, "b")
  /\ ~Has(ctxs, ops.last.res.v, "Symbol(s)")

----------------------------------------------------------------------------
(* The effect layer (packages/effects/src/index.ts): effect descriptors,   *)
(* EffectFlows and their combined flag, and the EffectInterpreter.         *)

EffectFlags ==
  [None |-> 0, Read |-> 1, Write |-> 2, IO |-> 4, Network |-> 8, Random |-> 16,
   Time |-> 32, Throw |-> 64, Async |-> 128]

\* the single bits of EffectFlags
FlagBits ==
  {EffectFlags.Read, EffectFlags.Write, EffectFlags.IO, EffectFlags.Network,
   EffectFlags.Random, EffectFlags.Time, EffectFlags.Throw, EffectFlags.Async}

RECURSIVE BitOr(_, _)

\* a | b
BitOr(a, b) ==
  IF a = 0 THEN b
  ELSE IF b = 0 THEN a
  ELSE (IF a % 2 = 1 \/ b % 2 = 1 THEN 1 ELSE 0) + (2 * BitOr(a \div 2, b \div 2))

RECURSIVE BitAnd(_, _)

\* a & b
BitAnd(a, b) ==
  IF a = 0 \/ b = 0 THEN 0
  ELSE (IF a % 2 = 1 /\ b % 2 = 1 THEN 1 ELSE 0) + (2 * BitAnd(a \div 2, b \div 2))

\* Symbol(description): n tells apart the symbols of one description
Symbol(description, n) == [description |-> description, n |-> n]

\* effect(id, flags, handler), id being a string: a descriptor under a new symbol
\* (n: how many symbols of that description were made before), with the handler
\* it was given
effect(id, n, flags) == [id |-> Symbol(id, n), flags |-> flags, handler |-> "handler"]

\* {...e, handler: mock}: the effect e with another handler
Mocked(e) == [e EXCEPT !.handler = "mock"]

\* the common effects
Effects ==
  [log |-> effect("log", 0, EffectFlags.IO),
   readFile |-> effect("readFile", 0,
                       BitOr(BitOr(EffectFlags.Read, EffectFlags.IO), EffectFlags.Async)),
   writeFile |-> effect("writeFile", 0,
                        BitOr(BitOr(EffectFlags.Write, EffectFlags.IO), EffectFlags.Async)),
   fetch |-> effect("fetch", 0, BitOr(EffectFlags.Network, EffectFlags.Async)),
   random |-> effect("random", 0, EffectFlags.Random),
   now |-> effect("now", 0, EffectFlags.Time),
   throw |-> effect("throw", 0, EffectFlags.Throw)]

StandardEffects == {Effects[n] : n \in DOMAIN Effects}

\* an effect of the application: effect('log', Write | IO), a second symbol
\* described as log
UserEffects == {effect("log", 1, BitOr(EffectFlags.Write, EffectFlags.IO))}

\* flags?: the argument left out
undefined == -1

RECURSIVE ReduceFlags(_, _)

\* effects.reduce((acc, e) => acc | e.flags, acc)
ReduceFlags(acc, effects) ==
  IF effects = <<>> THEN acc
  ELSE ReduceFlags(BitOr(acc, Head(effects).flags), Tail(effects))

RECURSIVE NewSet(_)

\* new Set(effects): the elements in the order of their first occurrence
NewSet(effects) ==
  IF effects = <<>> THEN <<>>
  ELSE LET init == NewSet(SubSeq(effects, 1, Len(effects) - 1))
           last == effects[Len(effects)]
       IN  IF \E i \in 1 .. Len(init) : init[i] = last THEN init ELSE Append(init, last)

\* (mutant) flags || effects.reduce(...): an override of None is taken as absent
effectful_orFalsy(id, async, ok, effects, flags) ==
  [k |-> "flow", id |-> id, async |-> async, ok |-> ok, onError |-> "none",
   effects |-> NewSet(effects),
   flags |-> IF flags # undefined /\ flags # 0 THEN flags ELSE ReduceFlags(0, effects)]

\* effectful(fn, effects, flags): flow(fn) with the properties effects and flags
effectful(id, async, ok, effects, flags) ==
  [k |-> "flow", id |-> id, async |-> async, ok |-> ok, onError |-> "none",
   effects |-> NewSet(effects),
   flags |-> IF flags # undefined THEN flags ELSE ReduceFlags(0, effects)]

\* pure(fn)
pure(id) == effectful(id, FALSE, TRUE, <<>>, EffectFlags.None)

\* hasEffect(flow, flag)
hasEffect(t, flag) ==
  IF "flags" \in DOMAIN t THEN BitAnd(t.flags, flag) # 0 ELSE FALSE

\* isPure(flow)
isPure(t) == IF "flags" \in DOMAIN t THEN t.flags = EffectFlags.None ELSE FALSE

RECURSIVE combineEffects(_)

\* combineEffects(...flows)
combineEffects(flows) ==
  IF flows = <<>> THEN EffectFlags.None
  ELSE LET acc == combineEffects(SubSeq(flows, 1, Len(flows) - 1))
           t == flows[Len(flows)]
       IN  IF "flags" \in DOMAIN t THEN BitOr(acc, t.flags) ELSE acc

\* the descriptions of the symbols, numbered
EffectNames == <<"log", "readFile", "writeFile", "fetch", "random", "now", "throw">>

\* new Error(`No handler for effect: ${String(effect.id)}`): String of a symbol
\* is Symbol(description), so the error is one per description
NoHandlerError(e) ==
  300 + (CHOOSE i \in 1 .. Len(EffectNames) : EffectNames[i] = e.id.description)

\* the TypeError of for (... of undefined), flow.effects being absent
NotIterableError == 399

\* register(effect): this.handlers.set(effect.id, effect.handler)
register(hs, e) ==
  [id \in (DOMAIN hs) \cup {e.id} |-> IF id = e.id THEN e.handler ELSE hs[id]]

\* new Map(): the handlers of new EffectInterpreter()
NoHandlers == [id \in {} |-> "handler"]

\* EffectInterpreter.pure(): the handlers of the interpreter it returns
EffectInterpreterPure ==
  register(register(register(register(register(register(NoHandlers,
    Effects.log), Effects.readFile), Effects.writeFile), Effects.fetch),
    Effects.random), Effects.now)

\* (mutant) a run that invokes the flow before it looks at the handlers
InterpreterRun_runsFirst(hs, t, x, H) ==
  LET r == Call(t, x, H)
      missing == {i \in 1 .. Len(t.effects) : t.effects[i].id \notin DOMAIN hs}
  IN  IF missing # {}
      THEN AsyncReturn([h |-> r.h,
                        res |-> Throw(NoHandlerError(
                                  t.effects[CHOOSE i \in missing : \A j \in missing : i <= j]))])
      ELSE AsyncReturn(r)

\* (mutant) a run that, every handler being there, has a mock handler stand in for
\* the flow: the run returns what the mock returns, 0
InterpreterRun_substitutes(hs, t, x, H) ==
  IF "effects" \notin DOMAIN t
  THEN AsyncReturn([h |-> H, res |-> Throw(NotIterableError)])
  ELSE LET missing == {i \in 1 .. Len(t.effects) : t.effects[i].id \notin DOMAIN hs} IN
       IF missing # {}
       THEN AsyncReturn([h |-> H,
                         res |-> Throw(NoHandlerError(
                                   t.effects[CHOOSE i \in missing : \A j \in missing : i <= j]))])
       ELSE IF \E i \in 1 .. Len(t.effects) : hs[t.effects[i].id] = "mock"
       THEN AsyncReturn([h |-> H, res |-> Val(0)])
       ELSE AsyncReturn(Call(t, x, H))

\* interpreter.run(flow, input, ctx), an async method: the first effect of
\* flow.effects without a handler throws, else flow(input) is returned
InterpreterRun(hs, t, x, H) ==
  IF "effects" \notin DOMAIN t
  THEN AsyncReturn([h |-> H, res |-> Throw(NotIterableError)])
  ELSE LET missing == {i \in 1 .. Len(t.effects) : t.effects[i].id \notin DOMAIN hs} IN
       IF missing # {}
       THEN AsyncReturn([h |-> H,
                         res |-> Throw(NoHandlerError(
                                   t.effects[CHOOSE i \in missing : \A j \in missing : i <= j]))])
       ELSE AsyncReturn(Call(t, x, H))

----------------------------------------------------------------------------
(* Programs over one interpreter. Both build f with effectful. The program *)
(* "flags" builds g and pipes f into it; the program "interpret" registers *)
(* handlers, runs f through the interpreter and calls f directly, each     *)
(* call awaited.                                                           *)

\* the runs through the interpreter a program makes
MaxRuns == 2

EffectUniverse == StandardEffects \cup UserEffects

\* the arrays of effects given to effectful: none, one, two (or one twice)
EffectLists ==
  {<<>>} \cup {<<e>> : e \in EffectUniverse}
    \cup {<<d, e>> : d \in EffectUniverse, e \in EffectUniverse}

\* the flags argument of effectful: left out, None, Read | IO
Overrides == {undefined, EffectFlags.None, BitOr(EffectFlags.Read, EffectFlags.IO)}

\* the second flow of a pipe: pure, effectful, or a plain flow
EffectStages ==
  {pure("g"), effectful("g", FALSE, TRUE, <<Effects.fetch>>, undefined),
   effectful("g", FALSE, TRUE, <<Effects.log, Effects.now>>, undefined),
   Flow("g", FALSE, TRUE, "none")}

EffectInit ==
  /\ hasALS = FALSE
  /\ asyncLocalStorage = FALSE
  /\ store = 0
  /\ promises = <<>>
  /\ jobs = <<>>
  /\ invs = <<>>
  /\ calls = <<>>
  /\ ctxs = NoContexts
  /\ ops = <<>>
  /\ \E prog \in {"flags", "interpret"}, es \in EffectLists :
       \E ov \in (IF prog = "flags" THEN Overrides ELSE {undefined}) :
         \E a \in (IF prog = "flags" THEN {FALSE} ELSE BOOLEAN) :
           \E o \in (IF prog = "flags" THEN {TRUE} ELSE BOOLEAN) :
             \E x \in (IF prog = "flags" THEN {0} ELSE Inputs) :
               \E g \in (IF prog = "flags" THEN EffectStages ELSE {pure("g")}) :
                 \E i \in {"new", "pure"} :
                   /\ sc = [prog |-> prog, f |-> effectful("f", a, o, es, ov), g |-> g,
                            effects |-> es, flags |-> ov, x |-> x, interpreter |-> i,
                            piped |-> NoTerm]
                   /\ handlers = IF i = "pure" THEN EffectInterpreterPure ELSE NoHandlers

\* interpreter.register(e), e an effect of f
Register ==
  /\ sc.prog = "interpret"
  /\ \E i \in 1 .. Len(sc.effects) : handlers' = register(handlers, sc.effects[i])
  /\ UNCHANGED <<hasALS, asyncLocalStorage, store, promises, jobs, invs, calls, sc, ctxs, ops>>

\* f.pipe(g)
DoPipe ==
  /\ sc.prog = "flags"
  /\ sc.piped = NoTerm
  /\ sc' = [sc EXCEPT !.piped = PipeOf(sc.f, sc.g)]
  /\ UNCHANGED <<hasALS, asyncLocalStorage, store, promises, jobs, invs, calls, ctxs, ops,
                 handlers>>

Awaited == jobs = <<>> /\ \A i \in 1 .. Len(calls) : Done(calls[i].res)

\* await interpreter.run(f, x, ctx)
EffectRun ==
  /\ sc.prog = "interpret"
  /\ Cardinality({i \in 1 .. Len(calls) : calls[i].shape = "run"}) < MaxRuns
  /\ Awaited
  /\ LET r == InterpreterRun(handlers, sc.f, sc.x, [Heap EXCEPT !.call = Len(calls) + 1])
     IN  /\ Commit(r.h)
         /\ calls' = Append(calls, [shape |-> "run", res |-> r.res, flow |-> sc.f,
                                    handlers |-> handlers])
  /\ UNCHANGED <<hasALS, sc, ctxs, ops, handlers>>

\* await f(x)
EffectCall ==
  /\ sc.prog = "interpret"
  /\ \A i \in 1 .. Len(calls) : calls[i].shape # "F"
  /\ Awaited
  /\ LET r == Call(sc.f, sc.x, [Heap EXCEPT !.call = Len(calls) + 1])
     IN  /\ Commit(r.h)
         /\ calls' = Append(calls, [shape |-> "F", res |-> r.res, flow |-> sc.f,
                                    handlers |-> handlers])
  /\ UNCHANGED <<hasALS, sc, ctxs, ops, handlers>>

EffectNext == Register \/ DoPipe \/ EffectRun \/ EffectCall \/ RunJob \/ Settle

SpecEffects == EffectInit /\ [][EffectNext]_vars

----------------------------------------------------------------------------
(* Properties of the effect layer. *)

\* C11: the combined flag of f.pipe(g), f and g being EffectFlows, is the
\* bitwise OR of the flags of f and g: the piped flow has a flags property with
\* that value, and hasEffect reports every bit of it and no other
C11_ComposedFlagsAreOr ==
  (sc.prog = "flags" /\ sc.piped # NoTerm /\ "flags" \in DOMAIN sc.g) =>
    /\ "flags" \in DOMAIN sc.piped
    /\ sc.piped.flags = BitOr(sc.f.flags, sc.g.flags)
    /\ \A bit \in FlagBits :
         hasEffect(sc.piped, bit) = (BitAnd(BitOr(sc.f.flags, sc.g.flags), bit) # 0)

\* the runs through the interpreter, and the direct calls
Runs == {i \in 1 .. Len(calls) : calls[i].shape = "run"}

\* the effects of the flow of call i that had no handler when the call was made
Missing(i) ==
  {e \in {calls[i].flow.effects[n] : n \in 1 .. Len(calls[i].flow.effects)} :
     e.id \notin DOMAIN calls[i].handlers}

\* C12: a run of an EffectFlow with at least one effect without a handler is
\* rejected with the no-handler error of one of those effects and never invokes
\* the flow's body; a run with a handler for every effect invokes the body once
\* and ends as f(x) itself ends: with the same value or the same error
C12_RunChecksHandlers ==
  sc.prog = "interpret" =>
    \A i \in Runs :
      IF Missing(i) # {}
      THEN /\ Outcome(calls[i].res).st = "rejected"
           /\ Outcome(calls[i].res).v \in {NoHandlerError(e) : e \in Missing(i)}
           /\ InvsOf(i, "f") = {}
      ELSE /\ Cardinality(InvsOf(i, "f")) = 1
           /\ Outcome(calls[i].res).mode = "async"
           /\ Done(calls[i].res) =>
                /\ Outcome(calls[i].res).v \notin {NoHandlerError(e) : e \in EffectUniverse}
                /\ \A j \in 1 .. Len(calls) :
                     (calls[j].shape = "F" /\ Done(calls[j].res)) =>
                       /\ Outcome(calls[i].res).st = Outcome(calls[j].res).st
                       /\ Outcome(calls[i].res).v = Outcome(calls[j].res).v

\* a run failed for a missing handler of the second of two effects; after a
\* register the next run ended as the direct call of the asynchronous f did
C12_Witness ==
  /\ sc.prog = "interpret"
  /\ sc.f.async
  /\ \E i \in Runs, j \in Runs, d \in 1 .. Len(calls) :
       /\ i < j
       /\ Len(sc.effects) = 2
       /\ Missing(i) = {sc.effects[2]}
       /\ Outcome(calls[i].res).v = NoHandlerError(sc.effects[2])
       /\ Missing(j) = {}
       /\ Done(calls[j].res)
       /\ calls[d].shape = "F"
       /\ Done(calls[d].res)
       /\ Outcome(calls[j].res).v = Outcome(calls[d].res).v

\* C13: the combined flag of effectful(fn, effects) is the OR of the listed
\* effects' flags: it has exactly the bits some listed effect has, and is None
\* for an empty list; the flag of effectful(fn, effects, override) is the
\* override, None included, whatever is listed; pure(fn) has the flag None and
\* no effects
C13_EffectfulFlags ==
  sc.prog \in {"flags", "interpret"} =>
    /\ sc.flags = undefined =>
         /\ sc.f.flags \in 0 .. 255
         /\ \A bit \in FlagBits :
              (BitAnd(sc.f.flags, bit) # 0) <=>
                \E i \in 1 .. Len(sc.effects) : BitAnd(sc.effects[i].flags, bit) # 0
         /\ sc.effects = <<>> => sc.f.flags = EffectFlags.None
    /\ sc.flags # undefined => sc.f.flags = sc.flags
    /\ sc.prog = "interpret" =>
         /\ sc.g.flags = EffectFlags.None
         /\ sc.g.effects = <<>>
         /\ isPure(sc.g)

\* f was built from readFile and log with the override None, and piped
C13_Witness ==
  /\ sc.prog = "flags"
  /\ sc.effects = <<Effects.readFile, Effects.log>>
  /\ sc.flags = EffectFlags.None
  /\ isPure(sc.f)
  /\ sc.piped # NoTerm

\* C14: the interpreter EffectInterpreter.pure() returns has a handler for each
\* of the standard effects log, readFile, writeFile, fetch, random, now and
\* throw, and no run through it of a flow whose effects are all standard ends
\* with a no-handler error
C14_PureHandlesStandardEffects ==
  (sc.prog = "interpret" /\ sc.interpreter = "pure") =>
    /\ \A e \in StandardEffects : e.id \in DOMAIN handlers
    /\ \A i \in Runs :
         (\A n \in 1 .. Len(sc.effects) : sc.effects[n] \in StandardEffects) =>
           ~ /\ Outcome(calls[i].res).st = "rejected"
             /\ Outcome(calls[i].res).v \in {NoHandlerError(e) : e \in EffectUniverse}

----------------------------------------------------------------------------
(* Programs that register handlers anew: as above, and an effect of f may   *)
(* be registered again with a mock handler, between the runs.              *)

\* the arrays of effects of these programs
MockedEffectLists == {<<>>, <<Effects.log>>, <<Effects.log, Effects.fetch>>}

HandlersInit ==
  /\ hasALS = FALSE
  /\ asyncLocalStorage = FALSE
  /\ store = 0
  /\ promises = <<>>
  /\ jobs = <<>>
  /\ invs = <<>>
  /\ calls = <<>>
  /\ ctxs = NoContexts
  /\ ops = <<>>
  /\ \E es \in MockedEffectLists, a \in BOOLEAN, o \in BOOLEAN, x \in Inputs :
       \E i \in {"new", "pure"} :
         /\ sc = [prog |-> "interpret", f |-> effectful("f", a, o, es, undefined),
                  g |-> pure("g"), effects |-> es, flags |-> undefined, x |-> x,
                  interpreter |-> i, piped |-> NoTerm]
         /\ handlers = IF i = "pure" THEN EffectInterpreterPure ELSE NoHandlers

\* interpreter.register({...e, handler: mock}), e an effect of f
RegisterMock ==
  /\ \E i \in 1 .. Len(sc.effects) : handlers' = register(handlers, Mocked(sc.effects[i]))
  /\ handlers' # handlers
  /\ UNCHANGED <<hasALS, asyncLocalStorage, store, promises, jobs, invs, calls, sc, ctxs, ops>>

HandlersNext == Register \/ RegisterMock \/ EffectRun \/ EffectCall \/ RunJob \/ Settle

SpecHandlers == HandlersInit /\ [][HandlersNext]_vars

----------------------------------------------------------------------------
(* Metadata: the meta a Flow carries and its merge in pipe (flow.ts).      *)
(* An optional value is <<>> (undefined) or <<v>>; an object is a function *)
(* of the properties it has.                                               *)

\* {...a, ...b}
Spread(a, b) ==
  [k \in (DOMAIN a) \cup (DOMAIN b) |-> IF k \in DOMAIN b THEN b[k] ELSE a[k]]

\* object.k = v
SetProperty(object, k, v) ==
  [n \in (DOMAIN object) \cup {k} |-> IF n = k THEN v ELSE object[n]]

NoProperties == [k \in {} |-> 0]

\* meta.performance, {} standing in when it is absent: of it only ?.pure and
\* ?.memoizable are read
PerformanceOf(meta) ==
  IF "performance" \in DOMAIN meta THEN meta.performance ELSE NoProperties

\* the merge of one flag of performance: the AND when both have it, else the
\* one that has it
MergeFlag(performance, p1, p2, flag) ==
  IF flag \in DOMAIN p1 /\ flag \in DOMAIN p2
  THEN SetProperty(performance, flag, p1[flag] /\ p2[flag])
  ELSE IF flag \in DOMAIN p1 THEN SetProperty(performance, flag, p1[flag])
  ELSE IF flag \in DOMAIN p2 THEN SetProperty(performance, flag, p2[flag])
  ELSE performance

\* mergeMetadata(meta1, meta2)
mergeMetadata(meta1, meta2) ==
  IF meta1 = <<>> /\ meta2 = <<>> THEN <<>>
  ELSE IF meta1 = <<>> THEN meta2
  ELSE IF meta2 = <<>> THEN meta1
  ELSE LET m1 == meta1[1]
           m2 == meta2[1]
           p1 == PerformanceOf(m1)
           p2 == PerformanceOf(m2)
           merged == Spread(m1, m2)
           withPerformance ==
             IF "performance" \in DOMAIN m1 \/ "performance" \in DOMAIN m2
             THEN SetProperty(merged, "performance",
                    MergeFlag(MergeFlag(Spread(p1, p2), p1, p2, "pure"),
                              p1, p2, "memoizable"))
             ELSE merged
           withTags ==
             IF "tags" \in DOMAIN m1 \/ "tags" \in DOMAIN m2
             THEN SetProperty(withPerformance, "tags",
                    (IF "tags" \in DOMAIN m1 THEN m1.tags ELSE <<>>)
                      \o (IF "tags" \in DOMAIN m2 THEN m2.tags ELSE <<>>))
             ELSE withPerformance
       IN  <<withTags>>

\* flow(fn, meta): the Flow t with meta
FlowWithMeta(t, meta) == SetProperty(t, "meta", meta)

\* flowMeta, the variable the pipe method of a Flow closes over: the meta given
\* to flow(); a piped Flow is built by flow(fn) with none
FlowMetaOf(t) == IF t.k = "flow" /\ "meta" \in DOMAIN t THEN <<t.meta>> ELSE <<>>

RECURSIVE MetaOf(_)

\* flow.meta, the property: the meta given to flow(), or what pipe assigned
MetaOf(t) ==
  CASE t.k = "flow" -> FlowMetaOf(t)
    [] t.k = "piped" ->
         IF FlowMetaOf(t.l) # <<>> \/ MetaOf(t.r) # <<>>
         THEN mergeMetadata(FlowMetaOf(t.l), MetaOf(t.r))
         ELSE <<>>
    [] OTHER -> <<>>

\* the metas given to flow(): none, a name only, and performance with pure and
\* memoizable set, cleared or left out
Metas(id) ==
  {<<>>,
   <<[name |-> id]>>,
   <<[name |-> id, performance |-> [pure |-> TRUE, memoizable |-> TRUE]]>>,
   <<[name |-> id, performance |-> [pure |-> TRUE]]>>,
   <<[name |-> id, performance |-> [pure |-> FALSE]]>>,
   <<[name |-> id, performance |-> [pure |-> TRUE, memoizable |-> FALSE], tags |-> <<id>>]>>}

\* flow(fn) and flow(fn, meta) for the stage named id
MetaStages(id, asyncs) ==
  {IF meta = <<>> THEN Flow(id, a, TRUE, "none")
   ELSE FlowWithMeta(Flow(id, a, TRUE, "none"), meta[1]) : meta \in Metas(id), a \in asyncs}

\* a program that builds one chain of f, g (and h) with pipe or compose, in
\* either nesting, and calls it
MetaInit ==
  /\ hasALS = FALSE
  /\ asyncLocalStorage = FALSE
  /\ store = 0
  /\ promises = <<>>
  /\ jobs = <<>>
  /\ invs = <<>>
  /\ calls = <<>>
  /\ ctxs = NoContexts
  /\ ops = <<>>
  /\ handlers = {}
  /\ \E shape \in {"FG", "C2", "L", "R", "C"}, x \in Inputs :
       \E f \in MetaStages("f", BOOLEAN), g \in MetaStages("g", {FALSE}) :
         \E h \in (IF shape \in {"FG", "C2"} THEN {identity} ELSE MetaStages("h", {FALSE})) :
           sc = [prog |-> "meta", shape |-> shape, f |-> f, g |-> g, h |-> h, x |-> x]

SpecMeta == MetaInit /\ [][FlowNext]_vars

\* the components of the chain a call applies
Components(shape) ==
  IF shape \in {"FG", "C2"} THEN {sc.f, sc.g} ELSE {sc.f, sc.g, sc.h}

\* meta marks the flag of performance as b
Marks(meta, flag, b) ==
  /\ meta # <<>>
  /\ "performance" \in DOMAIN meta[1]
  /\ flag \in DOMAIN meta[1].performance
  /\ meta[1].performance[flag] = b

\* C16: the meta of a chain of two or more flows built with pipe or compose, in
\* any nesting, marks it impure when the meta of a component marks that one
\* impure, and marks it pure, or memoizable, only when the meta of every
\* component marks that one pure, or memoizable
C16_MetadataMerge ==
  (sc.prog = "meta" /\ calls # <<>>) =>
    LET meta == MetaOf(TermOf(calls[1].shape))
        components == Components(calls[1].shape)
    IN  /\ (\E t \in components : Marks(MetaOf(t), "pure", FALSE)) =>
             Marks(meta, "pure", FALSE)
        /\ Marks(meta, "pure", TRUE) =>
             \A t \in components : Marks(MetaOf(t), "pure", TRUE)
        /\ Marks(meta, "memoizable", TRUE) =>
             \A t \in components : Marks(MetaOf(t), "memoizable", TRUE)

\* meta.name, when meta has one
NameOf(meta) == IF meta # <<>> /\ "name" \in DOMAIN meta[1] THEN <<meta[1].name>> ELSE <<>>

\* C23: when f and g both carry a name, the name of f.pipe(g) is made of both: the
\* name of f, a marker, the name of g; so it is a name, and neither the name of f
\* alone nor the name of g alone
C23_NamesConcatenated ==
  (sc.prog = "meta" /\ calls # <<>> /\ calls[1].shape \in {"FG", "C2"}
     /\ NameOf(MetaOf(sc.f)) # <<>> /\ NameOf(MetaOf(sc.g)) # <<>>) =>
    LET name == NameOf(MetaOf(TermOf(calls[1].shape)))
    IN  /\ name # <<>>
        /\ name # NameOf(MetaOf(sc.f))
        /\ name # NameOf(MetaOf(sc.g))

----------------------------------------------------------------------------
(* Programs of compose: compose() alone; compose(f) and f; compose(f, g)   *)
(* and f.pipe(g); compose(f, g, h) and f.pipe(g).pipe(h).                  *)

ComposeInit ==
  /\ hasALS \in BOOLEAN
  /\ asyncLocalStorage = FALSE
  /\ store = 0
  /\ promises = <<>>
  /\ jobs = <<>>
  /\ invs = <<>>
  /\ calls = <<>>
  /\ ctxs = NoContexts
  /\ ops = <<>>
  /\ handlers = {}
  /\ \E prog \in {"compose0", "compose1", "compose2", "compose3"}, x \in Inputs :
       \E f \in (IF prog = "compose0" THEN {identity} ELSE Stages("f")) :
         \E g \in (IF prog \in {"compose0", "compose1"} THEN {identity} ELSE Stages("g")) :
           \E h \in (IF prog = "compose3" THEN Stages("h") ELSE {identity}) :
             sc = [prog |-> prog, f |-> f, g |-> g, h |-> h, x |-> x]

SpecCompose == ComposeInit /\ [][FlowNext]_vars

\* C17: compose()(x) returns x as the identity flow does; compose(f) is f and
\* ends as f(x) does; compose(f, g)(x) ends as f.pipe(g)(x) and compose(f, g, h)(x)
\* as f.pipe(g).pipe(h)(x): same value or same error, in the same way
C17_ComposeLaws ==
  /\ \A i \in CallsOf("C0") :
       /\ Outcome(calls[i].res) = [mode |-> "sync", st |-> "fulfilled", v |-> sc.x]
       /\ Outcome(calls[i].res) = Outcome(Call(identity, sc.x, Heap).res)
  /\ \A i \in CallsOf("C1") :
       /\ compose(<<sc.f>>) = sc.f
       /\ \A j \in CallsOf("F") :
            (Done(calls[i].res) /\ Done(calls[j].res))
              => Outcome(calls[i].res) = Outcome(calls[j].res)
  /\ \A i \in CallsOf("C2"), j \in CallsOf("FG") :
       (Done(calls[i].res) /\ Done(calls[j].res))
         => Outcome(calls[i].res) = Outcome(calls[j].res)
  /\ \A i \in CallsOf("C"), j \in CallsOf("L") :
       (Done(calls[i].res) /\ Done(calls[j].res))
         => Outcome(calls[i].res) = Outcome(calls[j].res)

\* compose(f, g, h)(x) and f.pipe(g).pipe(h)(x) have both ended with the value
\* h(g(f(x))), f asynchronous
C17_Witness ==
  /\ sc.prog = "compose3"
  /\ Len(calls) = 2
  /\ sc.f.async /\ sc.f.ok /\ sc.g.ok /\ sc.h.ok
  /\ Outcome(calls[1].res) = [mode |-> "async", st |-> "fulfilled",
                              v |-> Apply("h", Apply("g", Apply("f", sc.x)))]
  /\ Outcome(calls[2].res) = Outcome(calls[1].res)

\* C24: identity()(x) returns x, and the meta of identity() marks it pure and
\* marks it memoizable
C24_IdentityPureMemoizable ==
  /\ \A x \in Inputs : Call(identity, x, Heap).res = Val(x)
  /\ \A i \in CallsOf("C0") :
       Outcome(calls[i].res) = [mode |-> "sync", st |-> "fulfilled", v |-> sc.x]
  /\ Marks(MetaOf(identity), "pure", TRUE)
  /\ Marks(MetaOf(identity), "memoizable", TRUE)

----------------------------------------------------------------------------
(* Programs of parallel and race: one call of parallel(flows)(x) or of     *)
(* race(flows)(x), flows being up to three of f, g, h. ops is the log of   *)
(* the order in which the flows complete: the index of a flow is added     *)
(* when it throws, returns a value, or when the promise it returned        *)
(* settles.                                                                *)

\* the flows given for the stage named id: with or without a handler that
\* returns a value
FanStages(id) == {Flow(id, a, o, e) : a \in BOOLEAN, o \in BOOLEAN, e \in {"none", "value"}}

\* an asynchronous h piped into a
PipedStage == PipeOf(Flow("h", TRUE, TRUE, "none"), Flow("a", FALSE, TRUE, "none"))

\* the arrays of flows: none, f, f and g, f and g and h
FanFlows ==
  {<<>>} \cup {<<f>> : f \in FanStages("f")}
    \cup {<<f, g>> : f \in FanStages("f"), g \in FanStages("g")}
    \cup {<<f, g, h>> : f \in FanStages("f"), g \in FanStages("g"),
                        h \in FanStages("h") \cup {PipedStage}}

FanInit ==
  /\ hasALS = FALSE
  /\ asyncLocalStorage = FALSE
  /\ store = 0
  /\ promises = <<>>
  /\ jobs = <<>>
  /\ invs = <<>>
  /\ calls = <<>>
  /\ ctxs = NoContexts
  /\ ops = <<>>
  /\ handlers = {}
  /\ \E prog \in {"parallel", "race"}, flows \in FanFlows, x \in Inputs :
       sc = [prog |-> prog, flows |-> flows, x |-> x]

RECURSIVE Sorted(_)

\* the numbers of S in increasing order
Sorted(S) == IF S = {} THEN <<>> ELSE <<Min(S)>> \o Sorted(S \ {Min(S)})

\* the flows, of those that returned results, that have completed: P the promises
Completed(P, results) ==
  {i \in 1 .. Len(results) : results[i].k = "promise" => P[results[i].v].st # "pending"}

\* the log with the flows added that have completed since
Watched(log, P, results) ==
  log \o Sorted(Completed(P, results) \ {log[n] : n \in 1 .. Len(log)})

\* await parallel(flows)(x), or await race(flows)(x)
StartFan ==
  /\ calls = <<>>
  /\ \E r \in {Call(IF sc.prog = "parallel" THEN parallel(sc.flows) ELSE race(sc.flows),
                       sc.x, [Heap EXCEPT !.call = 1])} :
       /\ Commit(r.h)
       /\ calls' = <<[shape |-> sc.prog, res |-> r.res, results |-> r.h.fan.results,
                      threw |-> r.h.fan.threw, e |-> r.h.fan.e]>>
       /\ ops' = Watched(<<>>, r.h.promises, r.h.fan.results)
                   \o (IF r.h.fan.threw THEN <<Len(r.h.fan.results) + 1>> ELSE <<>>)
  /\ UNCHANGED <<hasALS, sc, ctxs, handlers>>

FanRunJob ==
  /\ NextJob
  /\ ops' = Watched(ops, promises', calls[1].results)
  /\ UNCHANGED <<hasALS, calls, sc, ctxs, handlers>>

FanSettle ==
  /\ SettleOne
  /\ ops' = Watched(ops, promises', calls[1].results)
  /\ UNCHANGED <<hasALS, calls, sc, ctxs, handlers>>

FanNext == StartFan \/ FanRunJob \/ FanSettle

SpecFan == FanInit /\ [][FanNext]_vars

\* the name of the i-th of the flows
FanLeaf(i) == IF sc.flows[i].k = "piped" THEN sc.flows[i].l.id ELSE sc.flows[i].id

\* how the i-th of the flows ended, of those that returned a result
FanOutcome(i) == Outcome(calls[1].results[i])

\* C18: parallel(flows)(x) invokes every flow exactly once with x, all of them
\* within the call itself (before any of them is waited for), whether they succeed
\* or fail; when it succeeds its result has, at position i, the result of the i-th
\* flow, and when all the flows have succeeded it succeeds
C18_ParallelInvokesAll ==
  (sc.prog = "parallel" /\ calls # <<>>) =>
    LET end == Outcome(calls[1].res)
        n == Len(sc.flows)
    IN  /\ \A i \in 1 .. n :
             /\ Cardinality(InvsOf(1, FanLeaf(i))) = 1
             /\ \A m \in InvsOf(1, FanLeaf(i)) : invs[m].in = sc.x
        /\ end.st = "fulfilled" =>
             /\ Len(calls[1].results) = n
             /\ end.v = [i \in 1 .. n |-> FanOutcome(i).v]
        /\ ( /\ Len(calls[1].results) = n
             /\ \A i \in 1 .. n : FanOutcome(i).st = "fulfilled"
             /\ jobs = <<>> ) => end.st = "fulfilled"

\* the i-th of the flows has failed: it threw, or its promise is rejected
FanFailed(i) ==
  IF i <= Len(calls[1].results) THEN FanOutcome(i).st = "rejected" ELSE calls[1].threw

\* the error the i-th of the flows failed with
FanError(i) == IF i <= Len(calls[1].results) THEN FanOutcome(i).v ELSE calls[1].e

\* the flows that have failed, in the order in which they did
FanFailures == SelectSeq(ops, FanFailed)

C20_RaceFirstToComplete ==
  (sc.prog = "race" /\ calls # <<>>) =>
    LET end == Outcome(calls[1].res)
        n == Len(sc.flows)
    IN  /\ \A i \in 1 .. n :
             /\ Cardinality(InvsOf(1, FanLeaf(i))) = 1
             /\ \A m \in InvsOf(1, FanLeaf(i)) : invs[m].in = sc.x
        /\ end.st # "pending" =>
             /\ ops # <<>>
             /\ end.st = (IF FanFailed(ops[1]) THEN "rejected" ELSE "fulfilled")
             /\ end.v = FanError(ops[1])
        /\ (ops # <<>> /\ jobs = <<>>) => end.st # "pending"
        /\ (jobs = <<>> /\ \A p \in 1 .. Len(promises) :
                             promises[p].st = "pending" => promises[p].plan = "none") =>
             /\ Len(ops) = n
             /\ \A i \in 1 .. n :
                  (sc.flows[i].k = "piped" /\ FanOutcome(i).st = "fulfilled") =>
                    /\ Cardinality(InvsOf(1, "a")) = 1
                    /\ \A m \in InvsOf(1, "a") : invs[m].in = Apply("h", sc.x)

----------------------------------------------------------------------------
(* Programs of map, filter and reduce: one call of the combinator over an   *)
(* array of items.                                                         *)

\* arrays have up to MaxItems items
MaxItems == 3

\* the arrays of items
ItemArrays == UNION {[1 .. n -> Inputs] : n \in 0 .. MaxItems}

\* the element flows named id: succeeding or failing on every item, with or
\* without a handler that returns a value, or failing on one item only
ElementFlows(id) ==
  {Flow(id, a, o, e) : a \in BOOLEAN, o \in BOOLEAN, e \in {"none", "value"}}
    \cup {FailingOn(id, a, v) : a \in BOOLEAN, v \in Inputs}

\* the reducers: they take pairs, and have no handler
Reducers ==
  {Flow("r", a, o, "none") : a \in BOOLEAN, o \in BOOLEAN}
    \cup {FailingOn("r", a, v) : a \in BOOLEAN, v \in Inputs}

\* the combinators called
Iterations ==
  {Map(f) : f \in ElementFlows("f")} \cup {Filter(g) : g \in ElementFlows("g")}
    \cup {Reduce(r, initial) : r \in Reducers, initial \in Inputs}

IterateInit ==
  /\ hasALS = FALSE
  /\ asyncLocalStorage = FALSE
  /\ store = 0
  /\ promises = <<>>
  /\ jobs = <<>>
  /\ invs = <<>>
  /\ calls = <<>>
  /\ ctxs = NoContexts
  /\ ops = <<>>
  /\ handlers = {}
  /\ \E t \in Iterations, items \in ItemArrays :
       sc = [prog |-> "iterate", t |-> t, items |-> items]

\* await map(f)(items), and so for filter and reduce
StartIterate ==
  /\ calls = <<>>
  /\ \E r \in {Call(sc.t, sc.items, [Heap EXCEPT !.call = 1])} :
       /\ Commit(r.h)
       /\ calls' = <<[shape |-> sc.t.id, res |-> r.res]>>
  /\ UNCHANGED <<hasALS, sc, ctxs, ops, handlers>>

IterateNext == StartIterate \/ RunJob \/ Settle

SpecIterate == IterateInit /\ [][IterateNext]_vars

IsFn(inv) == inv.fn = "fn"

\* the calls of the element flow's function so far, in order
ElementCalls == SelectSeq(invs, IsFn)

\* C21: the k-th call of the element flow is for the k-th item, and is made only
\* when every earlier element call has completed, successfully; an element call
\* that failed is the last one, and the combinator then fails with its error;
\* the combinator succeeds only when every item has been processed
C21_SequentialElements ==
  calls # <<>> =>
    LET E == ElementCalls
        end == Outcome(calls[1].res)
    IN  /\ Len(E) <= Len(sc.items)
        /\ \A k \in 1 .. Len(E) :
             /\ ItemOf(sc.t.f.id, E[k].in) = sc.items[k]
             /\ k < Len(E) => Outcome(E[k].out).st = "fulfilled"
             /\ Outcome(E[k].out).st = "rejected" =>
                  /\ end.st # "fulfilled"
                  /\ jobs = <<>> => (end.st = "rejected" /\ end.v = Outcome(E[k].out).v)
        /\ end.st = "fulfilled" =>
             /\ Len(E) = Len(sc.items)
             /\ \A k \in 1 .. Len(E) : Outcome(E[k].out).st = "fulfilled"
        /\ end.st = "rejected" =>
             /\ E # <<>>
             /\ Outcome(E[Len(E)].out) = [mode |-> Outcome(E[Len(E)].out).mode,
                                           st |-> "rejected", v |-> end.v]

\* map(f) over three items, f asynchronous and failing on the second: f was
\* called for the first two items only, and the call failed with f's error
C21_Witness ==
  /\ calls # <<>>
  /\ sc.t.id = "map"
  /\ Len(sc.items) = 3
  /\ sc.t.f = FailingOn("f", TRUE, sc.items[2])
  /\ sc.items[1] # sc.items[2]
  /\ Len(ElementCalls) = 2
  /\ Outcome(calls[1].res) =
       [mode |-> "async", st |-> "rejected", v |-> ErrorOf("f", sc.items[2])]

----------------------------------------------------------------------------
(* Programs of the IO monad: an IO is built around the user function f, map *)
(* and flatMap are applied to the IO built so far, at any time, and the IO  *)
(* built so far is run, each run awaited. ops is the log of the map and     *)
(* flatMap steps taken.                                                    *)

\* the IO is composed with up to MaxSteps functions
MaxSteps == 2

\* the user functions composed, by position
StepIds == <<"g", "h", "a", "b">>

\* the steps possible at position n: map with a function that is synchronous or
\* asynchronous, flatMap with a synchronous function; either may fail
StepsAt(n) ==
  {[op |-> "map", fn |-> Flow(StepIds[n], a, o, "none")] : a \in BOOLEAN, o \in BOOLEAN}
    \cup {[op |-> "flatMap", fn |-> Flow(StepIds[n], FALSE, o, "none")] : o \in BOOLEAN}

\* the sequences of steps of a program
StepLists ==
  UNION {{s \in [1 .. n -> UNION {StepsAt(k) : k \in 1 .. n}] :
            \A k \in 1 .. n : s[k] \in StepsAt(k)} : n \in 0 .. MaxSteps}

IOInit ==
  /\ hasALS = FALSE
  /\ asyncLocalStorage = FALSE
  /\ store = 0
  /\ promises = <<>>
  /\ jobs = <<>>
  /\ invs = <<>>
  /\ calls = <<>>
  /\ ctxs = NoContexts
  /\ ops = <<>>
  /\ handlers = {}
  /\ \E a \in BOOLEAN, o \in BOOLEAN, x \in Inputs, steps \in StepLists :
       sc = [prog |-> "io", base |-> Flow("f", a, o, "none"), x |-> x, steps |-> steps]

RECURSIVE Built(_)

\* the IO built by the first n steps taken
Built(n) ==
  IF n = 0 THEN IO(sc.base, sc.x)
  ELSE IF ops[n].op = "map" THEN IOmap(Built(n - 1), ops[n].fn)
  ELSE IOflatMap(Built(n - 1), ops[n].fn)

\* io = io.map(fn)
DoMap ==
  /\ Len(ops) < Len(sc.steps)
  /\ sc.steps[Len(ops) + 1].op = "map"
  /\ ops' = Append(ops, sc.steps[Len(ops) + 1])
  /\ UNCHANGED <<hasALS, asyncLocalStorage, store, promises, jobs, invs, calls, sc, ctxs,
                 handlers>>

\* io = io.flatMap(fn)
DoFlatMap ==
  /\ Len(ops) < Len(sc.steps)
  /\ sc.steps[Len(ops) + 1].op = "flatMap"
  /\ ops' = Append(ops, sc.steps[Len(ops) + 1])
  /\ UNCHANGED <<hasALS, asyncLocalStorage, store, promises, jobs, invs, calls, sc, ctxs,
                 handlers>>

\* await io.run(), the runs before it having completed
DoRun ==
  /\ Len(calls) < MaxRuns
  /\ \A c \in 1 .. Len(calls) : Done(calls[c].res)
  /\ \E r \in {IOrun(Built(Len(ops)), [Heap EXCEPT !.call = Len(calls) + 1])} :
       /\ Commit(r.h)
       /\ calls' = Append(calls, [shape |-> "io", res |-> r.res, n |-> Len(ops)])
  /\ UNCHANGED <<hasALS, sc, ctxs, ops, handlers>>

IONext == DoMap \/ DoFlatMap \/ DoRun \/ RunJob \/ Settle

SpecIO == IOInit /\ [][IONext]_vars

\* the user functions called in the c-th run so far, in order
Executed(c) == SelectSeq(invs, LAMBDA inv : inv.call = c)

\* the user functions of the IO the c-th run ran: the wrapped computation, then
\* the functions composed onto it before the run, in composition order
Composed(c) == <<"f">> \o [k \in 1 .. calls[c].n |-> sc.steps[k].fn.id]

\* C22: no user function is called but within a run, so map and flatMap execute
\* nothing; each run calls the wrapped computation, once, then the composed
\* functions in composition order, each once and on the value of the one before,
\* for as long as they succeed; a run that succeeds has called them all and ends
\* with the value of the last; every run does so anew
C22_IODeferred ==
  /\ \A n \in 1 .. Len(invs) : invs[n].call \in 1 .. Len(calls)
  /\ \A c \in 1 .. Len(calls) :
       LET S == Executed(c)
           E == Composed(c)
           end == Outcome(calls[c].res)
       IN  /\ Len(S) >= 1
           /\ Len(S) <= Len(E)
           /\ S[1].in = sc.x
           /\ \A k \in 1 .. Len(S) :
                /\ S[k].leaf = E[k]
                /\ k > 1 =>
                     /\ Outcome(S[k - 1].res).st = "fulfilled"
                     /\ S[k].in = Outcome(S[k - 1].res).v
           /\ end.st = "fulfilled" =>
                /\ Len(S) = Len(E)
                /\ Outcome(S[Len(S)].res).st = "fulfilled"
                /\ end.v = Outcome(S[Len(S)].res).v

\* an IO composed with map and then flatMap has been run twice, both runs have
\* succeeded, and the computation and both functions were called in each
C22_Witness ==
  /\ Len(calls) = 2
  /\ Len(ops) = 2
  /\ ops[1].op = "map"
  /\ ops[2].op = "flatMap"
  /\ \A c \in 1 .. 2 :
       /\ calls[c].n = 2
       /\ Outcome(calls[c].res).st = "fulfilled"
       /\ Len(Executed(c)) = 3
  /\ Len(invs) = 6

----------------------------------------------------------------------------
(* Programs that call a contextual flow outside every run: f.pipe(g)(x) is *)
(* called directly, before, while or after c1.run(a.pipe(h).pipe(b), x)    *)
(* is in flight, h being asynchronous.                                     *)

DirectInit ==
  /\ hasALS \in BOOLEAN
  /\ asyncLocalStorage = FALSE
  /\ store = 0
  /\ promises = <<>>
  /\ jobs = <<>>
  /\ invs = <<>>
  /\ calls = <<>>
  /\ ctxs = AmbientContexts
  /\ ops = <<>>
  /\ handlers = {}
  /\ \E x \in Inputs, a \in ContextualStages("a", c1) :
       \E f \in ContextualStages("f", emptyContext), async \in BOOLEAN :
         sc = [prog |-> "direct", a |-> a, b |-> Contextual("b", FALSE, TRUE, c1),
               f |-> f, g |-> Contextual("g", async, TRUE, emptyContext),
               h |-> Flow("h", TRUE, TRUE, "none"), onError |-> "none", x |-> x]

\* the calls of shape made so far
Made(shape) == {i \in 1 .. Len(calls) : calls[i].shape = shape}

\* c1.run(a.pipe(h).pipe(b), x), once, not awaited
DirectRun ==
  /\ Made("run1") = {}
  /\ \E r \in {Call(AmbientTerm("run1"), sc.x, [Heap EXCEPT !.call = Len(calls) + 1])} :
       /\ Commit(r.h)
       /\ calls' = Append(calls, [shape |-> "run1", res |-> r.res])
  /\ UNCHANGED <<hasALS, sc, ctxs, ops, handlers>>

\* await f.pipe(g)(x), called from no run, at any time
DirectCall ==
  /\ Cardinality(Made("direct")) < MaxRuns
  /\ \A i \in Made("direct") : Done(calls[i].res)
  /\ \E r \in {Call(PipeOf(sc.f, sc.g), sc.x, [Heap EXCEPT !.call = Len(calls) + 1])} :
       /\ Commit(r.h)
       /\ calls' = Append(calls, [shape |-> "direct", res |-> r.res])
  /\ UNCHANGED <<hasALS, sc, ctxs, ops, handlers>>

DirectNext == DirectRun \/ DirectCall \/ RunJob \/ Settle

SpecDirect == DirectInit /\ [][DirectNext]_vars

\* C28: the stages of a contextual flow called outside every run are handed
\* emptyContext, never undefined and never the context of a run, in flight or
\* completed; emptyContext is frozen and empty: get returns the absent value for
\* every key, has is false, keys() is empty and with throws
C28_EmptyContextOutsideRuns ==
  /\ \A n \in 1 .. Len(invs) :
       invs[n].call \in Made("direct") =>
         /\ invs[n].ctx = emptyContext
         /\ invs[n].ctx # 0
         /\ invs[n].ctx # c1
  /\ ctxs[emptyContext].frozen
  /\ \A k \in Keys : Get(ctxs, emptyContext, k) = 0 /\ ~Has(ctxs, emptyContext, k)
  /\ ContextKeys(ctxs, emptyContext) = {}
  /\ \A values \in Bindings :
       With(ctxs, emptyContext, values) =
         [ctxs |-> ctxs, res |-> Returned("error", "Cannot modify frozen context")]

\* AsyncLocalStorage being there, c1.run has completed after handing c1 to its
\* stages, and f.pipe(g)(x) called afterwards has completed, f asynchronous
C28_Witness ==
  /\ hasALS
  /\ \E i \in Made("run1"), j \in Made("direct") :
       /\ i < j
       /\ Done(calls[i].res)
       /\ Done(calls[j].res)
       /\ sc.f.async
       /\ sc.f.ok
       /\ \E n \in 1 .. Len(invs) : invs[n].call = i /\ invs[n].ctx = c1
       /\ \E n \in 1 .. Len(invs) : invs[n].call = j /\ invs[n].leaf = "g"
       /\ \A n \in 1 .. Len(invs) :
            (invs[n].call = j) => \E m \in 1 .. Len(invs) : m < n /\ invs[m].call = i
                                     /\ invs[m].leaf = "b"

----------------------------------------------------------------------------
(* Termination of race and parallel: the flows may include some that never  *)
(* complete; the event loop runs every job it is given, and the promise of *)
(* every other asynchronous function is settled in the end.                *)

\* the flows given for the stage named id: completing, or not
LiveStages(id) == {Flow(id, a, o, "none") : a \in BOOLEAN, o \in BOOLEAN} \cup {Never(id)}

\* the arrays of flows: none, f, f and g, f and g and h
LiveFlows ==
  {<<>>} \cup {<<f>> : f \in LiveStages("f")}
    \cup {<<f, g>> : f \in LiveStages("f"), g \in LiveStages("g")}
    \cup {<<f, g, h>> : f \in LiveStages("f"), g \in LiveStages("g"),
                        h \in LiveStages("h")}

LiveInit ==
  /\ hasALS = FALSE
  /\ asyncLocalStorage = FALSE
  /\ store = 0
  /\ promises = <<>>
  /\ jobs = <<>>
  /\ invs = <<>>
  /\ calls = <<>>
  /\ ctxs = NoContexts
  /\ ops = <<>>
  /\ handlers = {}
  /\ \E prog \in {"parallel", "race"}, flows \in LiveFlows, x \in Inputs :
       sc = [prog |-> prog, flows |-> flows, x |-> x]

\* where the program is: the call made, the jobs queued (each by the promise that
\* settled and the promise it is to settle), and the state of every promise; the
\* call, a job run and a settlement each change it
Turn ==
  <<Len(calls), [n \in DOMAIN jobs |-> <<jobs[n].p, jobs[n].r.d>>],
    [p \in DOMAIN promises |-> promises[p].st]>>

\* the call is made, the job queue is drained, and the promise of an asynchronous
\* function that settles is settled in the end
SpecFanLive ==
  /\ LiveInit
  /\ [][FanNext]_vars
  /\ WF_Turn(StartFan)
  /\ WF_Turn(FanRunJob)
  /\ WF_Turn(FanSettle)

\* one of the flows has completed: it returned a value, it threw, or the promise
\* it returned is settled
SomeFlowCompleted ==
  /\ calls # <<>>
  /\ calls[1].threw \/ Completed(promises, calls[1].results) # {}

\* the promise of some asynchronous function waits to be settled
AwaitsSettle ==
  \E p \in 1 .. Len(promises) : promises[p].st = "pending" /\ promises[p].plan # "none"

\* C30: race(flows)(x) has not completed before one of its flows has, and once
\* one of them has completed it completes in the end, whatever the other flows
\* do, also when they never complete; race([])(x) never completes;
\* parallel([])(x) waits for nothing and is fulfilled with the empty sequence in
\* the end
C30_RaceTermination ==
  /\ []((sc.prog = "race" /\ calls # <<>> /\ Done(calls[1].res)) => SomeFlowCompleted)
  /\ (sc.prog = "race" /\ SomeFlowCompleted) ~> (calls # <<>> /\ Done(calls[1].res))
  /\ []((sc.prog = "race" /\ sc.flows = <<>> /\ calls # <<>>) => ~Done(calls[1].res))
  /\ []((sc.prog = "parallel" /\ sc.flows = <<>> /\ calls # <<>>) =>
          /\ ~AwaitsSettle
          /\ Outcome(calls[1].res).st # "rejected")
  /\ (sc.prog = "parallel" /\ sc.flows = <<>>) ~>
       (/\ sc.prog = "parallel"
        /\ calls # <<>>
        /\ Outcome(calls[1].res).st = "fulfilled"
        /\ Len(Outcome(calls[1].res).v) = 0)

\* race([f, g])(x) has completed with the value of g while f, which never
\* completes, is pending
C30_Witness ==
  /\ sc.prog = "race"
  /\ Len(sc.flows) = 2
  /\ "never" \in DOMAIN sc.flows[1]
  /\ sc.flows[2].async /\ sc.flows[2].ok /\ "never" \notin DOMAIN sc.flows[2]
  /\ calls # <<>>
  /\ FanOutcome(1).st = "pending"
  /\ Outcome(calls[1].res) =
       [mode |-> "async", st |-> "fulfilled", v |-> Apply("g", sc.x)]

=============================================================================
